---- MODULE Spec2Model ----
(***************************************************************************)
(* Recruitment module of the HRMS (recruitmentModule, recruitmentRoutes,   *)
(* emailService, db).  The document graph db.data is one record; every     *)
(* module function is an operator from a document and its arguments to an  *)
(* outcome: the document after the call, the documents handed to           *)
(* db.write() during the call, and the result or the error thrown.         *)
(*                                                                         *)
(* Abstractions: timestamps are the single value TS; uuids, free-text      *)
(* contact fields, skills and resume file names are not stored; titles,    *)
(* descriptions and the like are "" (missing/falsy) or one present value.  *)
(* null and undefined are both NULL.                                       *)
(***************************************************************************)
EXTENDS Integers, Sequences, FiniteSets, TLC

\* ------------------------------------------------------------------ bounds
\* SpecRequisition: requirements and postings
MaxReq == 2
MaxPost == 2
\* Spec: all eight operations from the empty store
FullMaxReq == 1
FullMaxPost == 2
FullMaxCand == 2
FullMaxLogs == 1
FullMaxInterviews == 1
\* SpecCandidate: the candidate lifecycle on an open posting
MaxCand == 2
MaxLogs == 2
MaxInterviews == 1
\* SpecRoutes: the notifying routes and the mail transport
RouteMaxCand == 2
RouteMaxLogs == 1
RouteMaxInterviews == 1
MaxMails == 2
MaxInFlight == 2

\* SpecMail: direct calls of the email service
MailMaxCand == 2
MailMaxLogs == 2
MailMaxInFlight == 2

\* SpecBulk: bulk notification
BulkMaxCand == 2
BulkMaxLogs == 2
MaxBatch == 2

\* SpecBuckets: candidates of two postings in all five statuses
BucketMaxCand == 2
BucketMaxLogs == 2
BucketMaxInterviews == 1

\* SpecApi: the requirement and posting routes
ApiMaxReq == 1
ApiMaxPost == 1

\* SpecAuth: logins of one account over time
MaxTime == 16
MaxFailed == 6
AuthMaxInFlight == 2

\* SpecStats: three candidates, selected or not
StatsMaxCand == 3
StatsMaxLogs == 3

\* SpecTop: rated interviews of up to three candidates
TopMaxCand == 3
TopMaxInterviews == 2

\* SpecAudit: requisition, candidate routes and their emails together
AuditMaxCand == 2
AuditMaxLogs == 1
AuditMaxInterviews == 1
AuditMaxMails == 3
AuditMaxInFlight == 1

\* SpecInterviews: repeated interviews of one candidate and their emails
InterviewsMaxCand == 1
InterviewsMaxInterviews == 2
InterviewsMaxMails == 3
InterviewsMaxInFlight == 2

\* SpecTokens: logins in flight, and failed attempts per user
TokenMaxInFlight == 2
TokenMaxFailed == 2

\* ------------------------------------------------------------- value sets
NULL == "null"
TS == "ts"
Falsy(v) == v \in {NULL, ""}

Users == {"u1"}
Emails == {"a@x.com", "b@x.com"}
NoteTexts == {"", "no fit", "other reason"}
NoReasonProvided == "No reason provided"

RequirementStatuses == {"pending", "approved", "rejected", "closed"}
validPostingStatuses == {"open", "closed", "filled"}
validStatuses == {"applied", "shortlisted", "interviewed", "selected", "rejected"}

Tables == {"jobRequirements", "jobPostings", "candidates", "statusChangeLogs", "emailLogs"}

\* strings that are parsed or printed are sequences of one-character strings
Digits == <<"0", "1", "2", "3", "4", "5", "6", "7", "8", "9">>

DigitValue(c) == (CHOOSE k \in 1..10 : Digits[k] = c) - 1

IsDigit(c) == \E k \in 1..10 : Digits[k] = c

RECURSIVE SkipBlanks(_)
SkipBlanks(s) == IF s # << >> /\ Head(s) = " " THEN SkipBlanks(Tail(s)) ELSE s

RECURSIVE DigitPrefix(_, _)
DigitPrefix(s, acc) ==
  IF s # << >> /\ IsDigit(Head(s))
    THEN DigitPrefix(Tail(s), 10 * acc + DigitValue(Head(s)))
    ELSE acc

\* ------------------------------------------------------------------ state
VARIABLES
  data,      \* db.data: the in-memory document graph
  written,   \* the documents handed to db.write() by the last operation, in order
  last,      \* the last step: operation, error thrown, HTTP status sent, mail state
  pending,   \* requests suspended at an await (transporter.sendMail, bcrypt.compare)
  now        \* the clock read by new Date() / Date.now(), in minutes

vars == <<data, written, last, pending, now>>

\* db.js: createDefaultSchema / the initial db object (recruitment collections)
createDefaultSchema ==
  [ users            |-> << >>,
    jobRequirements  |-> << >>,
    jobPostings      |-> << >>,
    candidates       |-> << >>,
    statusChangeLogs |-> << >>,
    emailLogs        |-> << >>,
    _id              |-> [t \in Tables |-> 0] ]

\* mutant: the counter is reset instead of advanced
nextIdRestarts(d, table) == [d EXCEPT !._id[table] = 1]

\* db.nextId(table): the document with the table's counter advanced;
\* the id issued is the counter's new value.
nextId(d, table) == [d EXCEPT !._id[table] = @ + 1]

\* Array.prototype.find by id: index of the first record with that id, 0 if none
IndexOfId(s, id) ==
  IF \E i \in 1..Len(s) : s[i].id = id
    THEN CHOOSE i \in 1..Len(s) : s[i].id = id /\ \A j \in 1..(i-1) : s[j].id # id
    ELSE 0

\* Outcome of a call that throws before mutating anything
Thrown(d, e) == [ok |-> FALSE, err |-> e, data |-> d, written |-> << >>, id |-> 0]

\* Outcome of a call that returns
Returned(d, w, id) == [ok |-> TRUE, err |-> "none", data |-> d, written |-> w, id |-> id]

\* --------------------------------------------- job requirement management
\* mutant: only a missing budget is refused, a budget of 0 is accepted
createJobRequirementZeroBudget(d, a) ==
  LET positions == IF a.positionsGiven THEN a.positions ELSE 1 IN
  IF Falsy(a.title) \/ Falsy(a.department) \/ ~a.budgetGiven
    THEN Thrown(d, "validation")
  ELSE IF a.budget < 0 THEN Thrown(d, "validation")
  ELSE IF positions < 1 THEN Thrown(d, "validation")
  ELSE
    LET d1 == nextId(d, "jobRequirements")
        requirement ==
          [ id              |-> d1._id["jobRequirements"],
            title           |-> a.title,
            department      |-> a.department,
            budget          |-> a.budget,
            positions       |-> positions,
            status          |-> "pending",
            createdBy       |-> a.createdBy,
            approvedBy      |-> NULL,
            approvedAt      |-> NULL,
            rejectionReason |-> NULL,
            filledPositions |-> 0 ]
        d2 == [d1 EXCEPT !.jobRequirements = Append(@, requirement)]
    IN Returned(d2, <<d2>>, requirement.id)

createJobRequirement(d, a) ==
  LET positions == IF a.positionsGiven THEN a.positions ELSE 1 IN
  IF Falsy(a.title) \/ Falsy(a.department) \/ ~a.budgetGiven \/ a.budget = 0
    THEN Thrown(d, "validation")
  ELSE IF a.budget < 0 THEN Thrown(d, "validation")
  ELSE IF positions < 1 THEN Thrown(d, "validation")
  ELSE
    LET d1 == nextId(d, "jobRequirements")
        requirement ==
          [ id              |-> d1._id["jobRequirements"],
            title           |-> a.title,
            department      |-> a.department,
            budget          |-> a.budget,
            positions       |-> positions,
            status          |-> "pending",
            createdBy       |-> a.createdBy,
            approvedBy      |-> NULL,
            approvedAt      |-> NULL,
            rejectionReason |-> NULL,
            filledPositions |-> 0 ]
        d2 == [d1 EXCEPT !.jobRequirements = Append(@, requirement)]
    IN Returned(d2, <<d2>>, requirement.id)

approveJobRequirement(d, requirementId, approvedBy) ==
  LET i == IndexOfId(d.jobRequirements, requirementId) IN
  IF i = 0 THEN Thrown(d, "notfound")
  ELSE
    LET d1 == [d EXCEPT !.jobRequirements[i].status = "approved",
                        !.jobRequirements[i].approvedBy = approvedBy,
                        !.jobRequirements[i].approvedAt = TS]
    IN Returned(d1, <<d1>>, requirementId)

rejectJobRequirement(d, requirementId, reason) ==
  LET i == IndexOfId(d.jobRequirements, requirementId) IN
  IF i = 0 THEN Thrown(d, "notfound")
  ELSE
    LET d1 == [d EXCEPT !.jobRequirements[i].status = "rejected",
                        !.jobRequirements[i].rejectionReason = reason]
    IN Returned(d1, <<d1>>, requirementId)

\* ------------------------------------------------- job posting management
\* the posting record built by createJobPosting and pushed to db.data.jobPostings
pushPosting(d, a, department) ==
  LET d1 == nextId(d, "jobPostings")
      posting ==
        [ id             |-> d1._id["jobPostings"],
          requirementId  |-> a.requirementId,
          title          |-> a.title,
          department     |-> department,
          status         |-> "open",
          applicantCount |-> 0 ]
      d2 == [d1 EXCEPT !.jobPostings = Append(@, posting)]
  IN Returned(d2, <<d2>>, posting.id)

\* mutant: the requirement's status is not checked
createJobPostingUnchecked(d, a) ==
  LET i == IndexOfId(d.jobRequirements, a.requirementId) IN
  IF i = 0 THEN Thrown(d, "notfound")
  ELSE IF Falsy(a.title) \/ Falsy(a.description) \/ Falsy(a.location)
    THEN Thrown(d, "validation")
  ELSE pushPosting(d, a, d.jobRequirements[i].department)

createJobPosting(d, a) ==
  LET i == IndexOfId(d.jobRequirements, a.requirementId) IN
  IF i = 0 THEN Thrown(d, "notfound")
  ELSE IF d.jobRequirements[i].status # "approved" THEN Thrown(d, "validation")
  ELSE IF Falsy(a.title) \/ Falsy(a.description) \/ Falsy(a.location)
    THEN Thrown(d, "validation")
  ELSE pushPosting(d, a, d.jobRequirements[i].department)

updateJobPostingStatus(d, postingId, status) ==
  IF status \notin validPostingStatuses THEN Thrown(d, "validation")
  ELSE
    LET i == IndexOfId(d.jobPostings, postingId) IN
    IF i = 0 THEN Thrown(d, "notfound")
    ELSE
      LET d1 == [d EXCEPT !.jobPostings[i].status = status]
      IN Returned(d1, <<d1>>, postingId)

\* ---------------------------------------------------- candidate management
\* the candidate record built by applyForJob
candidateRecord(id, a) ==
  [ id              |-> id,
    jobPostingId    |-> a.jobPostingId,
    candidateName   |-> a.candidateName,
    email           |-> a.email,
    status          |-> "applied",
    notes           |-> << >>,
    interviews      |-> << >>,
    rejectionReason |-> NULL ]

\* the duplicate check of applyForJob
existingApp(d, a) ==
  \E k \in 1..Len(d.candidates) :
    /\ d.candidates[k].jobPostingId = a.jobPostingId
    /\ d.candidates[k].email = a.email

\* mutant: db.write() is called before the applicant count is updated
applyForJobFlushBeforeCount(d, a) ==
  IF a.jobPostingId = 0 \/ Falsy(a.candidateName) \/ Falsy(a.email)
    THEN Thrown(d, "validation")
  ELSE
    LET p == IndexOfId(d.jobPostings, a.jobPostingId) IN
    IF p = 0 THEN Thrown(d, "notfound")
    ELSE IF existingApp(d, a) THEN Thrown(d, "conflict")
    ELSE
      LET d1 == nextId(d, "candidates")
          d2 == [d1 EXCEPT !.candidates = Append(@, candidateRecord(d1._id["candidates"], a))]
          d3 == [d2 EXCEPT !.jobPostings[p].applicantCount = @ + 1]
      IN Returned(d3, <<d2>>, d1._id["candidates"])

\* mutant: no duplicate check
applyForJobNoDuplicateCheck(d, a) ==
  IF a.jobPostingId = 0 \/ Falsy(a.candidateName) \/ Falsy(a.email)
    THEN Thrown(d, "validation")
  ELSE
    LET p == IndexOfId(d.jobPostings, a.jobPostingId) IN
    IF p = 0 THEN Thrown(d, "notfound")
    ELSE
      LET d1 == nextId(d, "candidates")
          d2 == [d1 EXCEPT !.candidates = Append(@, candidateRecord(d1._id["candidates"], a))]
          d3 == [d2 EXCEPT !.jobPostings[p].applicantCount = @ + 1]
      IN Returned(d3, <<d3>>, d1._id["candidates"])

\* mutant: the candidate id is drawn before the posting and duplicate checks
applyForJobEagerId(d, a) ==
  IF a.jobPostingId = 0 \/ Falsy(a.candidateName) \/ Falsy(a.email)
    THEN Thrown(d, "validation")
  ELSE
    LET p  == IndexOfId(d.jobPostings, a.jobPostingId)
        d1 == nextId(d, "candidates")
    IN
    IF p = 0 THEN Thrown(d1, "notfound")
    ELSE IF existingApp(d, a) THEN Thrown(d1, "conflict")
    ELSE
      LET d2 == [d1 EXCEPT !.candidates = Append(@, candidateRecord(d1._id["candidates"], a))]
          d3 == [d2 EXCEPT !.jobPostings[p].applicantCount = @ + 1]
      IN Returned(d3, <<d3>>, d1._id["candidates"])

\* mutant: only an open posting takes applications
applyForJobOpenOnly(d, a) ==
  IF a.jobPostingId = 0 \/ Falsy(a.candidateName) \/ Falsy(a.email)
    THEN Thrown(d, "validation")
  ELSE
    LET p == IndexOfId(d.jobPostings, a.jobPostingId) IN
    IF p = 0 THEN Thrown(d, "notfound")
    ELSE IF d.jobPostings[p].status # "open" THEN Thrown(d, "validation")
    ELSE IF existingApp(d, a) THEN Thrown(d, "conflict")
    ELSE
      LET d1 == nextId(d, "candidates")
          d2 == [d1 EXCEPT !.candidates = Append(@, candidateRecord(d1._id["candidates"], a))]
          d3 == [d2 EXCEPT !.jobPostings[p].applicantCount = @ + 1]
      IN Returned(d3, <<d3>>, d1._id["candidates"])

applyForJob(d, a) ==
  IF a.jobPostingId = 0 \/ Falsy(a.candidateName) \/ Falsy(a.email)
    THEN Thrown(d, "validation")
  ELSE
    LET p == IndexOfId(d.jobPostings, a.jobPostingId) IN
    IF p = 0 THEN Thrown(d, "notfound")
    ELSE IF existingApp(d, a) THEN Thrown(d, "conflict")
    ELSE
      LET d1 == nextId(d, "candidates")
          d2 == [d1 EXCEPT !.candidates = Append(@, candidateRecord(d1._id["candidates"], a))]
          d3 == [d2 EXCEPT !.jobPostings[p].applicantCount = @ + 1]
      IN Returned(d3, <<d3>>, d1._id["candidates"])

\* logStatusChange: the document after the row is pushed (db.write() follows)
logStatusChange(d, candidateId, oldStatus, newStatus) ==
  LET d1 == nextId(d, "statusChangeLogs") IN
  [d1 EXCEPT !.statusChangeLogs =
     Append(@, [ id          |-> d1._id["statusChangeLogs"],
                 candidateId |-> candidateId,
                 oldStatus   |-> oldStatus,
                 newStatus   |-> newStatus,
                 timestamp   |-> TS ])]

\* mutant: the rejection reason is set on every update to rejected
updateCandidateStatusOverwritesReason(d, candidateId, newStatus, notes) ==
  IF newStatus \notin validStatuses THEN Thrown(d, "validation")
  ELSE
    LET i == IndexOfId(d.candidates, candidateId) IN
    IF i = 0 THEN Thrown(d, "notfound")
    ELSE
      LET c == d.candidates[i]
          oldStatus == c.status
          c1 == [c EXCEPT !.status = newStatus]
          c2 == IF ~Falsy(notes) THEN [c1 EXCEPT !.notes = Append(@, notes)] ELSE c1
          c3 == IF newStatus = "rejected"
                  THEN [c2 EXCEPT !.rejectionReason =
                                     IF Falsy(notes) THEN NoReasonProvided ELSE notes]
                  ELSE c2
          d1 == [d EXCEPT !.candidates[i] = c3]
          d2 == logStatusChange(d1, candidateId, oldStatus, newStatus)
      IN Returned(d2, <<d1, d2>>, candidateId)

\* mutant: an update to the status the candidate already has is not logged
updateCandidateStatusLogsChangesOnly(d, candidateId, newStatus, notes) ==
  IF newStatus \notin validStatuses THEN Thrown(d, "validation")
  ELSE
    LET i == IndexOfId(d.candidates, candidateId) IN
    IF i = 0 THEN Thrown(d, "notfound")
    ELSE
      LET c == d.candidates[i]
          oldStatus == c.status
          c1 == [c EXCEPT !.status = newStatus]
          c2 == IF ~Falsy(notes) THEN [c1 EXCEPT !.notes = Append(@, notes)] ELSE c1
          c3 == IF newStatus = "rejected" /\ Falsy(c2.rejectionReason)
                  THEN [c2 EXCEPT !.rejectionReason =
                                     IF Falsy(notes) THEN NoReasonProvided ELSE notes]
                  ELSE c2
          d1 == [d EXCEPT !.candidates[i] = c3]
          d2 == IF oldStatus = newStatus THEN d1
                ELSE logStatusChange(d1, candidateId, oldStatus, newStatus)
      IN Returned(d2, <<d1, d2>>, candidateId)

\* mutant: selected and rejected are terminal
updateCandidateStatusTerminalGuard(d, candidateId, newStatus, notes) ==
  IF newStatus \notin validStatuses THEN Thrown(d, "validation")
  ELSE
    LET i == IndexOfId(d.candidates, candidateId) IN
    IF i = 0 THEN Thrown(d, "notfound")
    ELSE IF d.candidates[i].status \in {"selected", "rejected"} THEN Thrown(d, "validation")
    ELSE
      LET c == d.candidates[i]
          oldStatus == c.status
          c1 == [c EXCEPT !.status = newStatus]
          c2 == IF ~Falsy(notes) THEN [c1 EXCEPT !.notes = Append(@, notes)] ELSE c1
          c3 == IF newStatus = "rejected" /\ Falsy(c2.rejectionReason)
                  THEN [c2 EXCEPT !.rejectionReason =
                                     IF Falsy(notes) THEN NoReasonProvided ELSE notes]
                  ELSE c2
          d1 == [d EXCEPT !.candidates[i] = c3]
          d2 == logStatusChange(d1, candidateId, oldStatus, newStatus)
      IN Returned(d2, <<d1, d2>>, candidateId)

\* mutant: a rejection without notes records no reason
updateCandidateStatusNoPlaceholder(d, candidateId, newStatus, notes) ==
  IF newStatus \notin validStatuses THEN Thrown(d, "validation")
  ELSE
    LET i == IndexOfId(d.candidates, candidateId) IN
    IF i = 0 THEN Thrown(d, "notfound")
    ELSE
      LET c == d.candidates[i]
          oldStatus == c.status
          c1 == [c EXCEPT !.status = newStatus]
          c2 == IF ~Falsy(notes) THEN [c1 EXCEPT !.notes = Append(@, notes)] ELSE c1
          c3 == IF newStatus = "rejected" /\ Falsy(c2.rejectionReason)
                  THEN [c2 EXCEPT !.rejectionReason =
                                     IF Falsy(notes) THEN NULL ELSE notes]
                  ELSE c2
          d1 == [d EXCEPT !.candidates[i] = c3]
          d2 == logStatusChange(d1, candidateId, oldStatus, newStatus)
      IN Returned(d2, <<d1, d2>>, candidateId)

updateCandidateStatus(d, candidateId, newStatus, notes) ==
  IF newStatus \notin validStatuses THEN Thrown(d, "validation")
  ELSE
    LET i == IndexOfId(d.candidates, candidateId) IN
    IF i = 0 THEN Thrown(d, "notfound")
    ELSE
      LET c == d.candidates[i]
          oldStatus == c.status
          c1 == [c EXCEPT !.status = newStatus]
          c2 == IF ~Falsy(notes) THEN [c1 EXCEPT !.notes = Append(@, notes)] ELSE c1
          c3 == IF newStatus = "rejected" /\ Falsy(c2.rejectionReason)
                  THEN [c2 EXCEPT !.rejectionReason =
                                     IF Falsy(notes) THEN NoReasonProvided ELSE notes]
                  ELSE c2
          d1 == [d EXCEPT !.candidates[i] = c3]
          d2 == logStatusChange(d1, candidateId, oldStatus, newStatus)
      IN Returned(d2, <<d1, d2>>, candidateId)

\* mutant: every candidate not yet interviewed is advanced
addInterviewAlwaysAdvances(d, candidateId, iv) ==
  LET truthyRating == iv.ratingGiven /\ ~iv.ratingNaN /\ iv.rating # 0 IN
  IF Falsy(iv.date) \/ Falsy(iv.interviewer) THEN Thrown(d, "validation")
  ELSE IF truthyRating /\ (iv.rating < 1 \/ iv.rating > 5) THEN Thrown(d, "validation")
  ELSE
    LET i == IndexOfId(d.candidates, candidateId) IN
    IF i = 0 THEN Thrown(d, "notfound")
    ELSE
      LET interview == [ date        |-> iv.date,
                         interviewer |-> iv.interviewer,
                         rating      |-> IF truthyRating THEN iv.rating ELSE 0 ]
          d1 == [d EXCEPT !.candidates[i].interviews = Append(@, interview)]
          d2 == IF d1.candidates[i].status # "interviewed"
                  THEN [d1 EXCEPT !.candidates[i].status = "interviewed"]
                  ELSE d1
      IN Returned(d2, <<d2>>, candidateId)

addInterview(d, candidateId, iv) ==
  LET truthyRating == iv.ratingGiven /\ ~iv.ratingNaN /\ iv.rating # 0 IN
  IF Falsy(iv.date) \/ Falsy(iv.interviewer) THEN Thrown(d, "validation")
  ELSE IF truthyRating /\ (iv.rating < 1 \/ iv.rating > 5) THEN Thrown(d, "validation")
  ELSE
    LET i == IndexOfId(d.candidates, candidateId) IN
    IF i = 0 THEN Thrown(d, "notfound")
    ELSE
      LET interview == [ date        |-> iv.date,
                         interviewer |-> iv.interviewer,
                         rating      |-> IF truthyRating THEN iv.rating ELSE 0 ]
          d1 == [d EXCEPT !.candidates[i].interviews = Append(@, interview)]
          d2 == IF d1.candidates[i].status = "shortlisted"
                  THEN [d1 EXCEPT !.candidates[i].status = "interviewed"]
                  ELSE d1
      IN Returned(d2, <<d2>>, candidateId)

\* ----------------------------------------------------------- authentication
MAX_LOGIN_ATTEMPTS == 5
\* 15 * 60 * 1000 ms, in minutes
LOCK_TIME == 15

\* a user record; lockUntil is << >> (null) or <<t>>, the time the lock ends
userRecord(id, email) ==
  [ id |-> id, email |-> email, status |-> "active", failedLoginAttempts |-> 0,
    lockUntil |-> << >>, lastLogin |-> NULL ]

\* users.findIndex / find by email: index of the first match, 0 if none
IndexOfEmail(users, email) ==
  IF \E i \in 1..Len(users) : users[i].email = email
    THEN CHOOSE i \in 1..Len(users) :
           users[i].email = email /\ \A j \in 1..(i - 1) : users[j].email # email
    ELSE 0

isUserLockedOut(user, t) ==
  IF user.lockUntil = << >> THEN FALSE ELSE t < user.lockUntil[1]

\* mutant: a failed attempt after the lock has expired starts a new count
incrementFailedAttemptsAfresh(d, userId, t) ==
  LET userIndex == IndexOfId(d.users, userId) IN
  IF userIndex = 0 THEN d
  ELSE IF d.users[userIndex].lockUntil # << >> /\ ~isUserLockedOut(d.users[userIndex], t)
    THEN [d EXCEPT !.users[userIndex].failedLoginAttempts = 1,
                   !.users[userIndex].lockUntil = << >>]
  ELSE
    LET d1 == [d EXCEPT !.users[userIndex].failedLoginAttempts = @ + 1] IN
    IF d1.users[userIndex].failedLoginAttempts >= MAX_LOGIN_ATTEMPTS
      THEN [d1 EXCEPT !.users[userIndex].lockUntil = <<t + LOCK_TIME>>]
      ELSE d1

incrementFailedAttempts(d, userId, t) ==
  LET userIndex == IndexOfId(d.users, userId) IN
  IF userIndex = 0 THEN d
  ELSE
    LET d1 == [d EXCEPT !.users[userIndex].failedLoginAttempts = @ + 1] IN
    IF d1.users[userIndex].failedLoginAttempts >= MAX_LOGIN_ATTEMPTS
      THEN [d1 EXCEPT !.users[userIndex].lockUntil = <<t + LOCK_TIME>>]
      ELSE d1

resetFailedAttempts(d, userId) ==
  LET userIndex == IndexOfId(d.users, userId) IN
  IF userIndex = 0 THEN d
  ELSE [d EXCEPT !.users[userIndex].failedLoginAttempts = 0,
                 !.users[userIndex].lockUntil = << >>,
                 !.users[userIndex].lastLogin = TS]

\* login up to `await comparePassword`: the error thrown, or "await"
loginUntilCompare(d, t, email) ==
  LET i == IndexOfEmail(d.users, email) IN
  IF i = 0 THEN "User not found"
  ELSE IF isUserLockedOut(d.users[i], t) THEN "Account locked"
  ELSE "await"

\* login after `await comparePassword`
loginAfterCompare(d, t, userId, isPasswordValid) ==
  IF ~isPasswordValid
    THEN [data |-> incrementFailedAttempts(d, userId, t), err |-> "Invalid password"]
    ELSE [data |-> resetFailedAttempts(d, userId), err |-> "none"]

\* POST /auth/unlock/:userId (Admin only)
unlockUser(d, userId) ==
  LET i == IndexOfId(d.users, userId) IN
  IF i = 0 THEN d
  ELSE [d EXCEPT !.users[i].failedLoginAttempts = 0, !.users[i].lockUntil = << >>]

\* A JWT: whether jwt.verify accepts it (signature and expiry), and the type
\* and id of its payload (an access token's payload has no type)
jwt(verifies, type, id) == [verifies |-> verifies, type |-> type, id |-> id]

NoToken == jwt(FALSE, NULL, 0)

generateToken(user) == jwt(TRUE, NULL, user.id)

generateRefreshToken(user) == jwt(TRUE, "refresh", user.id)

\* login, from `Generate tokens` on: the tokens returned
loginTokens(d, userId) ==
  LET user == d.users[IndexOfId(d.users, userId)] IN
  [ token |-> generateToken(user), refreshToken |-> generateRefreshToken(user) ]

\* mutant: the refresh does not look at the account status
refreshAccessTokenAnyStatus(d, refreshToken) ==
  IF ~refreshToken.verifies THEN [err |-> "Invalid token", token |-> NoToken]
  ELSE IF refreshToken.type # "refresh" THEN [err |-> "Invalid token type", token |-> NoToken]
  ELSE
    LET i == IndexOfId(d.users, refreshToken.id) IN
    IF i = 0 THEN [err |-> "User not found or inactive", token |-> NoToken]
    ELSE [err |-> "none", token |-> generateToken(d.users[i])]

refreshAccessToken(d, refreshToken) ==
  IF ~refreshToken.verifies THEN [err |-> "Invalid token", token |-> NoToken]
  ELSE IF refreshToken.type # "refresh" THEN [err |-> "Invalid token type", token |-> NoToken]
  ELSE
    LET i == IndexOfId(d.users, refreshToken.id) IN
    IF i = 0 \/ d.users[i].status # "active"
      THEN [err |-> "User not found or inactive", token |-> NoToken]
      ELSE [err |-> "none", token |-> generateToken(d.users[i])]

validUserStatuses == {"active", "inactive", "suspended"}

\* PUT /auth/users/:userId/status (Admin only): the store and the status sent
setUserStatus(d, userId, status) ==
  IF Falsy(status) \/ status \notin validUserStatuses THEN [data |-> d, code |-> 400]
  ELSE
    LET i == IndexOfId(d.users, userId) IN
    IF i = 0 THEN [data |-> d, code |-> 404]
    ELSE [data |-> [d EXCEPT !.users[i].status = status], code |-> 200]

\* ------------------------------------------------------------------ queries
\* mutant: the jobPostingId filter is not applied
getCandidatesUnfiltered(d, jobPostingId) == d.candidates

\* getCandidates({ jobPostingId }): a falsy jobPostingId filters nothing
getCandidates(d, jobPostingId) ==
  IF jobPostingId = 0 THEN d.candidates
  ELSE SelectSeq(d.candidates, LAMBDA c : c.jobPostingId = jobPostingId)

getCandidatesByPosting(d, jobPostingId) ==
  LET candidates == getCandidates(d, jobPostingId) IN
  [ total    |-> Len(candidates),
    byStatus |-> [s \in validStatuses |-> SelectSeq(candidates, LAMBDA c : c.status = s)] ]

\* getJobPostingById: the posting with its stats, or the error thrown
getJobPostingById(d, id) ==
  LET i == IndexOfId(d.jobPostings, id)
      candidates == SelectSeq(d.candidates, LAMBDA c : c.jobPostingId = id)
  IN IF i = 0
       THEN [ok |-> FALSE, err |-> "notfound"]
       ELSE [ ok |-> TRUE, err |-> "none", posting |-> d.jobPostings[i],
              stats |-> [ total       |-> Len(candidates),
                          applied     |-> Len(SelectSeq(candidates, LAMBDA c : c.status = "applied")),
                          shortlisted |-> Len(SelectSeq(candidates, LAMBDA c : c.status = "shortlisted")),
                          interviewed |-> Len(SelectSeq(candidates, LAMBDA c : c.status = "interviewed")),
                          selected    |-> Len(SelectSeq(candidates, LAMBDA c : c.status = "selected")),
                          rejected    |-> Len(SelectSeq(candidates, LAMBDA c : c.status = "rejected")) ] ]

\* the decimal digits of a natural number, as a string (sequence of characters)
RECURSIVE DecimalDigits(_)
DecimalDigits(n) ==
  IF n < 10 THEN <<Digits[n + 1]>>
  ELSE Append(DecimalDigits(n \div 10), Digits[(n % 10) + 1])

\* mutant: the rate is truncated to two decimals instead of rounded
percentTruncated2(num, den) ==
  LET hundredths == (num * 10000) \div den
      cents      == hundredths % 100
  IN DecimalDigits(hundredths \div 100)
       \o <<".", Digits[(cents \div 10) + 1], Digits[(cents % 10) + 1]>>

\* ((num / den) * 100).toFixed(2): the quotient in percent rounded to the
\* nearest hundredth, ties upward, printed with two decimals.  Computed in
\* exact arithmetic; for the small counts explored the double-precision
\* computation prints the same digits.
percentToFixed2(num, den) ==
  LET hundredths == (2 * num * 10000 + den) \div (2 * den)
      cents      == hundredths % 100
  IN DecimalDigits(hundredths \div 100)
       \o <<".", Digits[(cents \div 10) + 1], Digits[(cents % 10) + 1]>>

\* getRecruitmentStats: conversionRate is the number 0 without candidates and
\* otherwise the string printed by toFixed(2)
getRecruitmentStats(d) ==
  LET count(q, status) == Len(SelectSeq(q, LAMBDA x : x.status = status)) IN
  [ requirements |-> [ total |-> Len(d.jobRequirements) ]
                       @@ [s \in RequirementStatuses |-> count(d.jobRequirements, s)],
    postings     |-> [ total |-> Len(d.jobPostings) ]
                       @@ [s \in validPostingStatuses |-> count(d.jobPostings, s)],
    candidates   |-> [ total |-> Len(d.candidates) ]
                       @@ [s \in validStatuses |-> count(d.candidates, s)],
    conversionRate |->
      IF Len(d.candidates) > 0
        THEN [ type |-> "string",
               text |-> percentToFixed2(count(d.candidates, "selected"), Len(d.candidates)) ]
        ELSE [ type |-> "number", text |-> <<"0">> ] ]

\* interviews.reduce((sum, i) => sum + i.rating, 0)
RECURSIVE ratingSum(_)
ratingSum(interviews) ==
  IF interviews = << >> THEN 0
  ELSE interviews[1].rating + ratingSum(Tail(interviews))

\* avgB - avgA < 0 for candidates a, b with interviews: a's mean rating is
\* the greater (the quotients are compared by cross-multiplication)
meanGreater(a, b) ==
  ratingSum(a.interviews) * Len(b.interviews) > ratingSum(b.interviews) * Len(a.interviews)

\* mutant: an unstable sort, an element goes ahead of those of equal mean
insertAheadOfEqual(q, x) ==
  LET k == IF \E i \in 1..Len(q) : ~meanGreater(q[i], x)
             THEN CHOOSE i \in 1..Len(q) :
                    ~meanGreater(q[i], x) /\ \A j \in 1..(i - 1) : meanGreater(q[j], x)
             ELSE Len(q) + 1
  IN SubSeq(q, 1, k - 1) \o <<x>> \o SubSeq(q, k, Len(q))

\* Array.prototype.sort with the comparator avgB - avgA: a stable sort, here
\* by inserting each element behind those whose mean is not smaller
insertByMean(q, x) ==
  LET k == IF \E i \in 1..Len(q) : meanGreater(x, q[i])
             THEN CHOOSE i \in 1..Len(q) :
                    meanGreater(x, q[i]) /\ \A j \in 1..(i - 1) : ~meanGreater(x, q[j])
             ELSE Len(q) + 1
  IN SubSeq(q, 1, k - 1) \o <<x>> \o SubSeq(q, k, Len(q))

RECURSIVE sortByMean(_)
sortByMean(q) ==
  IF q = << >> THEN << >>
  ELSE insertByMean(sortByMean(SubSeq(q, 1, Len(q) - 1)), q[Len(q)])

\* Array.prototype.slice(0, end): a negative end counts from the back
slice0(q, end) ==
  LET e == IF end < 0 THEN (IF Len(q) + end < 0 THEN 0 ELSE Len(q) + end)
           ELSE IF end > Len(q) THEN Len(q) ELSE end
  IN SubSeq(q, 1, e)

\* getTopCandidates: the array returned, and the store after the call (filter
\* makes a new array, which sort then reorders)
getTopCandidates(d, limit) ==
  LET rated == SelectSeq(d.candidates, LAMBDA c : Len(c.interviews) > 0)
  IN [ candidates |-> slice0(sortByMean(rated), limit), data |-> d ]

\* ------------------------------------------------------------ email logging
\* mutant: the log keeps only the latest sent mail
logEmailSentKeepsLatest(d, candidateId, emailType, messageId, recipientEmail) ==
  LET d1 == nextId(d, "emailLogs") IN
  [d1 EXCEPT !.emailLogs =
     << [ id             |-> d1._id["emailLogs"],
          candidateId    |-> candidateId,
          emailType      |-> emailType,
          messageId      |-> messageId,
          recipientEmail |-> recipientEmail,
          status         |-> "sent",
          error          |-> NULL ] >>]

logEmailSent(d, candidateId, emailType, messageId, recipientEmail) ==
  LET d1 == nextId(d, "emailLogs") IN
  [d1 EXCEPT !.emailLogs =
     Append(@, [ id             |-> d1._id["emailLogs"],
                 candidateId    |-> candidateId,
                 emailType      |-> emailType,
                 messageId      |-> messageId,
                 recipientEmail |-> recipientEmail,
                 status         |-> "sent",
                 error          |-> NULL ])]

logEmailError(d, candidateId, emailType, errorMessage) ==
  LET d1 == nextId(d, "emailLogs") IN
  [d1 EXCEPT !.emailLogs =
     Append(@, [ id             |-> d1._id["emailLogs"],
                 candidateId    |-> candidateId,
                 emailType      |-> emailType,
                 messageId      |-> NULL,
                 recipientEmail |-> NULL,
                 status         |-> "failed",
                 error          |-> errorMessage ])]

\* ------------------------------------------------------------------ routes
\* A request suspended in `await transporter.sendMail(mailOptions)`
Suspended(route, candidateId, emailType, recipientEmail, code) ==
  [ route |-> route, candidateId |-> candidateId, emailType |-> emailType,
    recipientEmail |-> recipientEmail, code |-> code ]

NoMail == Suspended("", 0, "", "", 0)

\* Outcome of the synchronous part of a route handler: the store, the flushes,
\* the error caught, the status sent (0: none yet) and the mail being awaited
Handled(r, code, mail) ==
  [ data |-> r.data, written |-> r.written, err |-> r.err, code |-> code, mail |-> mail ]

\* req.user of a request: set by an authentication middleware, NoUser when no
\* such middleware ran (the router mounts none)
NoUser == [id |-> NULL, role |-> NULL]

RequestUsers ==
  { NoUser, [id |-> "u1", role |-> "hr"], [id |-> "u2", role |-> "admin"],
    [id |-> "u3", role |-> "employee"] }

\* req.user?.id || 1
userIdOr1(user) == IF user.id = NULL THEN "1" ELSE user.id

\* POST /requirements: budget is parseFloat(budget) (NaN, falsy, when it is
\* missing), positions is parseInt(positions) || 1; the body's budget and
\* positions are JSON numbers
routeCreateRequirement(d, user, body) ==
  LET r == createJobRequirement(d,
             [ body EXCEPT
                 !.positionsGiven = TRUE,
                 !.positions = IF body.positionsGiven /\ body.positions # 0
                                 THEN body.positions ELSE 1,
                 !.createdBy = userIdOr1(user) ])
  IN Handled(r, IF r.ok THEN 201 ELSE 400, NoMail)

\* PUT /requirements/:id/approve
routeApproveRequirement(d, user, id) ==
  LET r == approveJobRequirement(d, id, userIdOr1(user))
  IN Handled(r, IF r.ok THEN 200 ELSE 400, NoMail)

\* PUT /requirements/:id/reject
routeRejectRequirement(d, user, id, reason) ==
  LET r == rejectJobRequirement(d, id, reason)
  IN Handled(r, IF r.ok THEN 200 ELSE 400, NoMail)

\* POST /postings
routeCreatePosting(d, user, body) ==
  LET r == createJobPosting(d, body)
  IN Handled(r, IF r.ok THEN 201 ELSE 400, NoMail)

\* the emailType logged by the send function a status is dispatched to
notificationOf(status) ==
  CASE status = "shortlisted" -> "shortlistedNotification"
    [] status = "selected"    -> "selectedNotification"
    [] status = "rejected"    -> "rejectionNotification"

\* POST /apply
routeApply(d, body) ==
  IF body.jobPostingId = 0 \/ Falsy(body.candidateName) \/ Falsy(body.email)
    THEN Handled(Thrown(d, "validation"), 400, NoMail)
  ELSE
    LET r == applyForJob(d, body) IN
    IF ~r.ok THEN Handled(r, 400, NoMail)
    ELSE IF IndexOfId(r.data.jobPostings, body.jobPostingId) = 0
      THEN Handled(r, 400, NoMail)
    ELSE Handled(r, 0, Suspended("POST /apply", r.id, "applicationConfirmation",
                                 body.email, 201))

\* PUT /candidates/:id/status
routeCandidateStatus(d, id, status, notes) ==
  LET r == updateCandidateStatus(d, id, status, notes) IN
  IF ~r.ok THEN Handled(r, 400, NoMail)
  ELSE
    LET candidate == r.data.candidates[IndexOfId(r.data.candidates, id)] IN
    IF IndexOfId(r.data.jobPostings, candidate.jobPostingId) = 0
      THEN Handled(r, 400, NoMail)
    ELSE IF status \in {"shortlisted", "selected", "rejected"}
      THEN Handled(r, 0, Suspended("PUT /candidates/:id/status", id,
                                   notificationOf(status), candidate.email, 200))
    ELSE Handled(r, 200, NoMail)

\* parseInt(string), radix 10: leading blanks are skipped, an optional sign is
\* read, then the longest prefix of decimal digits; NaN when that prefix is
\* empty.  A string is a sequence of one-character strings.
parseInt(text) ==
  LET s      == SkipBlanks(text)
      signed == s # << >> /\ Head(s) \in {"-", "+"}
      t      == IF signed THEN Tail(s) ELSE s
      n      == DigitPrefix(t, 0)
  IN IF t = << >> \/ ~IsDigit(Head(t))
       THEN [nan |-> TRUE, value |-> 0]
       ELSE [nan |-> FALSE, value |-> IF signed /\ Head(s) = "-" THEN 0 - n ELSE n]

\* the interviewData the add-interview route builds from the request body:
\* rating is always passed, as parseInt(rating) (NaN for a missing rating)
interviewDataOf(body) ==
  LET n == IF body.ratingGiven THEN parseInt(body.ratingText)
                               ELSE [nan |-> TRUE, value |-> 0]
  IN [ date |-> body.date, interviewer |-> body.interviewer,
       ratingGiven |-> TRUE, ratingNaN |-> n.nan, rating |-> n.value ]

\* POST /candidates/:id/interview
routeInterview(d, id, body) ==
  LET r == addInterview(d, id, interviewDataOf(body)) IN
  IF ~r.ok THEN Handled(r, 400, NoMail)
  ELSE
    LET candidate == r.data.candidates[IndexOfId(r.data.candidates, id)] IN
    IF IndexOfId(r.data.jobPostings, candidate.jobPostingId) = 0
      THEN Handled(r, 400, NoMail)
    ELSE Handled(r, 0, Suspended("POST /candidates/:id/interview", id,
                                 "interviewScheduled", candidate.email, 201))

\* mutant: a refused mail is rethrown without a log row
sendSettledFailureUnlogged(d, p, accepted) ==
  IF accepted /\ p.emailType # "jobPostingNotification"
    THEN [ data |-> logEmailSent(d, p.candidateId, p.emailType, "msg", p.recipientEmail),
           thrown |-> FALSE ]
    ELSE [ data |-> d, thrown |-> ~accepted ]

\* emailService send functions once sendMail settles: logEmailSent and return,
\* or logEmailError and rethrow; sendJobPostingNotification logs nothing and
\* returns or rethrows
sendSettled(d, p, accepted) ==
  IF p.emailType = "jobPostingNotification"
    THEN [ data |-> d, thrown |-> ~accepted ]
  ELSE IF accepted
    THEN [ data |-> logEmailSent(d, p.candidateId, p.emailType, "msg", p.recipientEmail),
           thrown |-> FALSE ]
    ELSE [ data |-> logEmailError(d, p.candidateId, p.emailType, "SMTP error"),
           thrown |-> TRUE ]

\* sendBulkStatusUpdate: the loop from item k on, with the results so far.
\* outcomes[k] tells whether the transport accepts the mail of item k.  The
\* awaits of the loop are the only points where other requests can run; this
\* is a call during which none does.
TypeErrorMessage == "Cannot read properties of undefined (reading 'jobPostingId')"

RECURSIVE bulkLoop(_, _, _, _, _, _)
bulkLoop(d, candidateIds, newStatus, outcomes, k, results) ==
  IF k > Len(candidateIds) THEN [results |-> results, data |-> d]
  ELSE
    LET candidateId == candidateIds[k]
        ci == IndexOfId(d.candidates, candidateId)
        failed(reason) ==
          bulkLoop(d, candidateIds, newStatus, outcomes, k + 1,
                   [results EXCEPT !.failed =
                      Append(@, [candidateId |-> candidateId, reason |-> reason])])
    IN
    IF ci = 0 THEN failed(TypeErrorMessage)
    ELSE IF IndexOfId(d.jobPostings, d.candidates[ci].jobPostingId) = 0
      THEN failed("Candidate or posting not found")
    ELSE IF newStatus \in {"shortlisted", "selected", "rejected"}
      THEN
        LET s == sendSettled(d, Suspended("sendBulkStatusUpdate", candidateId,
                                          notificationOf(newStatus),
                                          d.candidates[ci].email, 0),
                             outcomes[k])
        IN IF s.thrown
             THEN bulkLoop(s.data, candidateIds, newStatus, outcomes, k + 1,
                           [results EXCEPT !.failed =
                              Append(@, [candidateId |-> candidateId, reason |-> "SMTP error"])])
             ELSE bulkLoop(s.data, candidateIds, newStatus, outcomes, k + 1,
                           [results EXCEPT !.success = Append(@, candidateId)])
    ELSE failed("Unsupported status: " \o newStatus)

\* mutant: an item whose send fails is reported in neither list
sendBulkDropsFailedSend(d, candidateIds, newStatus, outcomes) ==
  LET r == bulkLoop(d, candidateIds, newStatus, outcomes, 1,
                    [success |-> << >>, failed |-> << >>])
  IN [r EXCEPT !.results.failed = SelectSeq(@, LAMBDA f : f.reason # "SMTP error")]

sendBulkStatusUpdate(d, candidateIds, newStatus, outcomes) ==
  bulkLoop(d, candidateIds, newStatus, outcomes, 1, [success |-> << >>, failed |-> << >>])

\* mutant: the send is not wrapped in its own try/catch, so a transport error
\* reaches the handler's outer catch
routeAfterSendUncaught(d, p, accepted) ==
  LET s == sendSettled(d, p, accepted) IN
  [ data |-> s.data, written |-> <<s.data>>, code |-> IF s.thrown THEN 400 ELSE p.code ]

\* The rest of the route handler: catch (emailError) { console.error }, then
\* the success response
routeAfterSend(d, p, accepted) ==
  LET s == sendSettled(d, p, accepted) IN
  [ data |-> s.data, written |-> <<s.data>>, code |-> p.code ]

\* ------------------------------------------------------------------ inputs
\* An environment gives the bounds of an exploration and the argument values
\* its callers pass.
Env(maxReq, maxPost, maxCand, maxLogs, maxInterviews, reasons, statuses, notes, ratings) ==
  [ maxReq |-> maxReq, maxPost |-> maxPost, maxCand |-> maxCand, maxLogs |-> maxLogs,
    maxInterviews |-> maxInterviews, reasons |-> reasons, statuses |-> statuses,
    notes |-> notes, ratings |-> ratings, maxMails |-> 0, maxInFlight |-> 0 ]

validRequirementInput ==
  [ title |-> "Backend Engineer", department |-> "Eng", budgetGiven |-> TRUE,
    budget |-> 100000, positionsGiven |-> TRUE, positions |-> 1, createdBy |-> "u1" ]

CreateRequirementInputs ==
  { validRequirementInput,
    [validRequirementInput EXCEPT !.positionsGiven = FALSE],
    [validRequirementInput EXCEPT !.title = ""],
    [validRequirementInput EXCEPT !.department = ""],
    [validRequirementInput EXCEPT !.budgetGiven = FALSE],
    [validRequirementInput EXCEPT !.budget = 0],
    [validRequirementInput EXCEPT !.budget = -1],
    [validRequirementInput EXCEPT !.positions = 0] }

validPostingInput ==
  [ requirementId |-> 1, title |-> "Backend Engineer",
    description |-> "We are hiring", location |-> "Remote" ]

CreatePostingInputs(e) ==
  UNION { { [validPostingInput EXCEPT !.requirementId = id],
            [validPostingInput EXCEPT !.requirementId = id, !.title = ""],
            [validPostingInput EXCEPT !.requirementId = id, !.description = ""],
            [validPostingInput EXCEPT !.requirementId = id, !.location = ""] }
          : id \in 1..(e.maxReq + 1) }

PostingStatusInputs == validPostingStatuses \cup {"archived"}

ApplyInputs(e) ==
  { [jobPostingId |-> p, candidateName |-> "A", email |-> m]
      : p \in 1..(e.maxPost + 1), m \in Emails }
  \cup { [jobPostingId |-> 0, candidateName |-> "A", email |-> "a@x.com"],
         [jobPostingId |-> 1, candidateName |-> "",  email |-> "a@x.com"],
         [jobPostingId |-> 1, candidateName |-> "A", email |-> ""] }

validInterviewInput ==
  [ date |-> "2024-01-30", interviewer |-> "Sarah",
    ratingGiven |-> FALSE, ratingNaN |-> FALSE, rating |-> 0 ]

\* every candidate id with every rating; one unknown id; one call per missing field
InterviewInputs(e) ==
  { [candidateId |-> id, interviewData |-> iv]
      : id \in 1..e.maxCand,
        iv \in {validInterviewInput}
               \cup { [validInterviewInput EXCEPT !.ratingGiven = TRUE, !.rating = x]
                        : x \in e.ratings } }
  \cup { [candidateId |-> e.maxCand + 1, interviewData |-> validInterviewInput],
         [candidateId |-> 1, interviewData |-> [validInterviewInput EXCEPT !.date = ""]],
         [candidateId |-> 1, interviewData |-> [validInterviewInput EXCEPT !.interviewer = ""]] }

\* request bodies of the add-interview route
validInterviewBody ==
  [ date |-> "2024-01-30", interviewer |-> "Sarah", ratingGiven |-> FALSE, ratingText |-> << >> ]

RatingTexts ==
  { <<"0">>, <<"1">>, <<"4">>, <<"5">>, <<"6">>, <<"1", "0">>, <<"-", "1">>, <<" ", "3">>,
    <<"3", ".", "7">>, <<"0", ".", "5">>, <<"a">>, << >> }

InterviewBodies ==
  {validInterviewBody}
  \cup { [validInterviewBody EXCEPT !.ratingGiven = TRUE, !.ratingText = t] : t \in RatingTexts }

RouteInterviewInputs(e) ==
  { [candidateId |-> id, body |-> b]
      : id \in 1..e.maxCand,
        b \in { validInterviewBody,
                [validInterviewBody EXCEPT !.ratingGiven = TRUE, !.ratingText = <<"0">>],
                [validInterviewBody EXCEPT !.ratingGiven = TRUE, !.ratingText = <<"4">>],
                [validInterviewBody EXCEPT !.ratingGiven = TRUE, !.ratingText = <<"6">>] } }
  \cup { [candidateId |-> e.maxCand + 1, body |-> validInterviewBody],
         [candidateId |-> 1, body |-> [validInterviewBody EXCEPT !.date = ""]],
         [candidateId |-> 1, body |-> [validInterviewBody EXCEPT !.interviewer = ""]] }

\* every candidate id with every status and note; one unknown id; one invalid status
StatusInputs(e) ==
  { [candidateId |-> id, newStatus |-> s, notes |-> n]
      : id \in 1..e.maxCand, s \in e.statuses, n \in e.notes }
  \cup { [candidateId |-> e.maxCand + 1, newStatus |-> "shortlisted", notes |-> ""],
         [candidateId |-> 1, newStatus |-> "hired", notes |-> ""] }

\* The explorations stay within the environment's bounds
WithinBounds(d, e) ==
  /\ Len(d.jobRequirements) <= e.maxReq
  /\ Len(d.jobPostings) <= e.maxPost
  /\ Len(d.candidates) <= e.maxCand
  /\ Len(d.statusChangeLogs) <= e.maxLogs
  /\ \A i \in 1..Len(d.candidates) : Len(d.candidates[i].interviews) <= e.maxInterviews
  /\ Len(d.emailLogs) <= e.maxMails

\* ----------------------------------------------------------------- actions
\* The effect of a call on db.data and on the file written by db.write()
Commit(r, op, e) ==
  /\ WithinBounds(r.data, e)
  /\ data' = r.data
  /\ written' = r.written
  /\ last' = [op |-> op, err |-> r.err, code |-> 0, mail |-> "none"]
  /\ UNCHANGED now

CreateJobRequirement(e) ==
  \E a \in CreateRequirementInputs :
    /\ Commit(createJobRequirement(data, a), "createJobRequirement", e)
    /\ UNCHANGED pending

ApproveJobRequirement(e) ==
  \E id \in 1..(e.maxReq + 1), u \in Users :
    /\ Commit(approveJobRequirement(data, id, u), "approveJobRequirement", e)
    /\ UNCHANGED pending

RejectJobRequirement(e) ==
  \E id \in 1..(e.maxReq + 1), reason \in e.reasons :
    /\ Commit(rejectJobRequirement(data, id, reason), "rejectJobRequirement", e)
    /\ UNCHANGED pending

CreateJobPosting(e) ==
  \E a \in CreatePostingInputs(e) :
    /\ Commit(createJobPosting(data, a), "createJobPosting", e)
    /\ UNCHANGED pending

UpdateJobPostingStatus(e) ==
  \E id \in 1..(e.maxPost + 1), s \in PostingStatusInputs :
    /\ Commit(updateJobPostingStatus(data, id, s), "updateJobPostingStatus", e)
    /\ UNCHANGED pending

ApplyForJob(e) ==
  \E a \in ApplyInputs(e) :
    /\ Commit(applyForJob(data, a), "applyForJob", e)
    /\ UNCHANGED pending

UpdateCandidateStatus(e) ==
  \E c \in StatusInputs(e) :
    /\ Commit(updateCandidateStatus(data, c.candidateId, c.newStatus, c.notes),
              "updateCandidateStatus", e)
    /\ UNCHANGED pending

AddInterview(e) ==
  \E c \in InterviewInputs(e) :
    /\ Commit(addInterview(data, c.candidateId, c.interviewData), "addInterview", e)
    /\ UNCHANGED pending

\* ---------------------------------------------------------- specifications
Init ==
  /\ data = createDefaultSchema
  /\ written = << >>
  /\ last = [op |-> "init", err |-> "none", code |-> 0, mail |-> "none"]
  /\ pending = << >>
  /\ now = 0

\* Spec: any sequence of direct calls of the eight mutating operations of the
\* recruitment module, from the empty store.
FullEnv ==
  Env(FullMaxReq, FullMaxPost, FullMaxCand, FullMaxLogs, FullMaxInterviews,
      {"budget cut"}, {"shortlisted"}, {""}, {})

Next ==
  \/ CreateJobRequirement(FullEnv)
  \/ ApproveJobRequirement(FullEnv)
  \/ RejectJobRequirement(FullEnv)
  \/ CreateJobPosting(FullEnv)
  \/ UpdateJobPostingStatus(FullEnv)
  \/ ApplyForJob(FullEnv)
  \/ UpdateCandidateStatus(FullEnv)
  \/ AddInterview(FullEnv)

Spec == Init /\ [][Next]_vars

\* SpecRequisition: requirements and the postings created from them.
RequisitionEnv == Env(MaxReq, MaxPost, 0, 0, 0, {"budget cut"}, {}, {}, {})

NextRequisition ==
  \/ CreateJobRequirement(RequisitionEnv)
  \/ ApproveJobRequirement(RequisitionEnv)
  \/ RejectJobRequirement(RequisitionEnv)
  \/ CreateJobPosting(RequisitionEnv)
  \/ UpdateJobPostingStatus(RequisitionEnv)

SpecRequisition == Init /\ [][NextRequisition]_vars

\* SpecCandidate: the candidate lifecycle, from the store reached by creating
\* a requirement, approving it and creating one posting from it.
HiringStore ==
  LET d1 == createJobRequirement(createDefaultSchema, validRequirementInput).data
      d2 == approveJobRequirement(d1, 1, "u1").data
  IN createJobPosting(d2, validPostingInput).data

InitCandidate ==
  /\ data = HiringStore
  /\ written = <<HiringStore>>
  /\ last = [op |-> "createJobPosting", err |-> "none", code |-> 0, mail |-> "none"]
  /\ pending = << >>
  /\ now = 0

CandidateEnv ==
  Env(1, 1, MaxCand, MaxLogs, MaxInterviews,
      {}, validStatuses, NoteTexts, {3})

NextCandidate ==
  \/ ApplyForJob(CandidateEnv)
  \/ UpdateCandidateStatus(CandidateEnv)
  \/ AddInterview(CandidateEnv)

SpecCandidate == InitCandidate /\ [][NextCandidate]_vars

\* SpecRoutes: the three notifying routes, each suspended at its await until
\* the transport accepts or refuses the mail; requests interleave at the await.
RouteEnv ==
  [ Env(1, 1, RouteMaxCand, RouteMaxLogs, RouteMaxInterviews,
        {}, {"shortlisted", "interviewed"}, {""}, {})
    EXCEPT !.maxMails = MaxMails, !.maxInFlight = MaxInFlight ]

\* The synchronous part of a handler runs to its response or to its await
Handle(h, op, e) ==
  /\ WithinBounds(h.data, e)
  /\ data' = h.data
  /\ written' = h.written
  /\ UNCHANGED now
  /\ IF h.mail = NoMail
       THEN /\ pending' = pending
            /\ last' = [op |-> op, err |-> h.err, code |-> h.code, mail |-> "none"]
       ELSE /\ Len(pending) < e.maxInFlight
            /\ Len(data.emailLogs) + Len(pending) < e.maxMails
            /\ pending' = Append(pending, h.mail)
            /\ last' = [op |-> op, err |-> h.err, code |-> h.code, mail |-> "pending"]

RouteApply(e) ==
  \E body \in ApplyInputs(e) : Handle(routeApply(data, body), "POST /apply", e)

RouteCandidateStatus(e) ==
  \E c \in StatusInputs(e) :
    Handle(routeCandidateStatus(data, c.candidateId, c.newStatus, c.notes),
           "PUT /candidates/:id/status", e)

RouteInterview(e) ==
  \E c \in RouteInterviewInputs(e) :
    Handle(routeInterview(data, c.candidateId, c.body),
           "POST /candidates/:id/interview", e)

Remove(s, k) == [i \in 1..(Len(s) - 1) |-> IF i < k THEN s[i] ELSE s[i + 1]]

Settle(k, accepted) ==
  LET p == pending[k]
      r == routeAfterSend(data, p, accepted)
  IN /\ data' = r.data
     /\ written' = r.written
     /\ UNCHANGED now
     /\ pending' = Remove(pending, k)
     /\ last' = [ op |-> p.route, err |-> IF accepted THEN "none" ELSE "transport",
                  code |-> r.code, mail |-> IF accepted THEN "sent" ELSE "failed" ]

TransportAccepts == \E k \in 1..Len(pending) : Settle(k, TRUE)

TransportFails == \E k \in 1..Len(pending) : Settle(k, FALSE)

NextRoutes ==
  \/ RouteApply(RouteEnv)
  \/ RouteCandidateStatus(RouteEnv)
  \/ RouteInterview(RouteEnv)
  \/ TransportAccepts
  \/ TransportFails

SpecRoutes == InitCandidate /\ [][NextRoutes]_vars

\* SpecMail: the email service called directly, for the candidates and the
\* posting of the store; each call is suspended at its await until the
\* transport accepts or refuses the mail.
CandidateEmailTypes ==
  { "applicationConfirmation", "shortlistedNotification", "interviewScheduled",
    "selectedNotification", "rejectionNotification" }

SubscriberLists == { << >>, <<"s@x.com">>, <<"s@x.com", "t@x.com">> }

\* emails.join(',')
RECURSIVE Join(_)
Join(emails) ==
  IF emails = << >> THEN ""
  ELSE IF Len(emails) = 1 THEN emails[1]
  ELSE emails[1] \o "," \o Join(Tail(emails))

MailEnv ==
  [ Env(1, 1, MailMaxCand, 0, 0, {}, {}, {}, {})
    EXCEPT !.maxMails = MailMaxLogs, !.maxInFlight = MailMaxInFlight ]

\* a send function up to its await
BeginSend(p, e) ==
  /\ Len(pending) < e.maxInFlight
  /\ Len(data.emailLogs) + Len(pending) < e.maxMails
  /\ pending' = Append(pending, p)
  /\ last' = [op |-> p.emailType, err |-> "none", code |-> 0, mail |-> "pending"]
  /\ written' = << >>
  /\ UNCHANGED <<data, now>>

\* sendApplicationConfirmation, sendShortlistedNotification,
\* sendInterviewScheduled, sendSelectedNotification, sendRejectionNotification
SendCandidateMail(e) ==
  \E i \in 1..Len(data.candidates), t \in CandidateEmailTypes :
    BeginSend(Suspended("emailService", data.candidates[i].id, t,
                        data.candidates[i].email, 0), e)

sendJobPostingNotification(e) ==
  \E k \in 1..Len(data.jobPostings), emails \in SubscriberLists :
    IF emails = << >>
      THEN /\ last' = [ op |-> "jobPostingNotification", err |-> "no recipients",
                        code |-> 0, mail |-> "none" ]
           /\ written' = << >>
           /\ UNCHANGED <<data, pending, now>>
      ELSE BeginSend(Suspended("emailService", 0, "jobPostingNotification",
                               Join(emails), 0), e)

\* the send function after its await: what it logs and whether it rethrows
MailSettle(k, accepted) ==
  LET p == pending[k]
      s == sendSettled(data, p, accepted)
  IN /\ data' = s.data
     /\ written' = IF s.data = data THEN << >> ELSE <<s.data>>
     /\ UNCHANGED now
     /\ pending' = Remove(pending, k)
     /\ last' = [ op |-> p.emailType, err |-> IF s.thrown THEN "transport" ELSE "none",
                  code |-> 0, mail |-> IF accepted THEN "sent" ELSE "failed" ]

MailAccepted == \E k \in 1..Len(pending) : MailSettle(k, TRUE)

MailRefused == \E k \in 1..Len(pending) : MailSettle(k, FALSE)

NextMail ==
  \/ ApplyForJob(MailEnv)
  \/ SendCandidateMail(MailEnv)
  \/ sendJobPostingNotification(MailEnv)
  \/ MailAccepted
  \/ MailRefused

SpecMail == InitCandidate /\ [][NextMail]_vars

\* SpecBulk: sendBulkStatusUpdate called for the candidates of the store
BulkEnv == [ Env(1, 1, BulkMaxCand, 0, 0, {}, {}, {}, {}) EXCEPT !.maxMails = BulkMaxLogs ]

RECURSIVE SeqsUpTo(_, _)
SeqsUpTo(S, n) ==
  IF n = 0 THEN {<< >>}
  ELSE LET shorter == SeqsUpTo(S, n - 1)
       IN shorter \cup { Append(q, x) : q \in shorter, x \in S }

BulkIdLists == SeqsUpTo(1..(BulkMaxCand + 1), MaxBatch)

BulkStatuses == {"shortlisted", "selected", "rejected", "interviewed"}

SendBulkStatusUpdate(e) ==
  \E ids \in BulkIdLists, status \in BulkStatuses :
    \E outcomes \in [1..Len(ids) -> BOOLEAN] :
      LET r == sendBulkStatusUpdate(data, ids, status, outcomes) IN
      /\ WithinBounds(r.data, e)
      /\ data' = r.data
      /\ written' = [ j \in 1..(Len(r.data.emailLogs) - Len(data.emailLogs)) |->
                        [ r.data EXCEPT
                            !.emailLogs = SubSeq(@, 1, Len(data.emailLogs) + j),
                            !._id["emailLogs"] = data._id["emailLogs"] + j ] ]
      /\ last' = [op |-> "sendBulkStatusUpdate", err |-> "none", code |-> 0, mail |-> "none"]
      /\ UNCHANGED <<pending, now>>

NextBulk ==
  \/ ApplyForJob(BulkEnv)
  \/ SendBulkStatusUpdate(BulkEnv)

SpecBulk == InitCandidate /\ [][NextBulk]_vars

\* SpecBuckets: the candidate lifecycle on two open postings of one approved
\* requirement.
TwoPostingStore == createJobPosting(HiringStore, validPostingInput).data

InitBuckets ==
  /\ data = TwoPostingStore
  /\ written = <<TwoPostingStore>>
  /\ last = [op |-> "createJobPosting", err |-> "none", code |-> 0, mail |-> "none"]
  /\ pending = << >>
  /\ now = 0

BucketEnv ==
  Env(1, 2, BucketMaxCand, BucketMaxLogs, BucketMaxInterviews, {}, validStatuses, {""}, {})

NextBuckets ==
  \/ ApplyForJob(BucketEnv)
  \/ UpdateCandidateStatus(BucketEnv)
  \/ AddInterview(BucketEnv)

SpecBuckets == InitBuckets /\ [][NextBuckets]_vars

\* SpecApi: the requirement and posting routes, called by requests of every
\* kind of user, from the empty store.
ApiEnv == Env(ApiMaxReq, ApiMaxPost, 0, 0, 0, {"budget cut"}, {}, {}, {})

RouteCreateRequirement(e) ==
  \E user \in RequestUsers, body \in CreateRequirementInputs :
    Handle(routeCreateRequirement(data, user, body), "POST /requirements", e)

RouteApproveRequirement(e) ==
  \E user \in RequestUsers, id \in 1..(e.maxReq + 1) :
    Handle(routeApproveRequirement(data, user, id), "PUT /requirements/:id/approve", e)

RouteRejectRequirement(e) ==
  \E user \in RequestUsers, id \in 1..(e.maxReq + 1), reason \in e.reasons :
    Handle(routeRejectRequirement(data, user, id, reason), "PUT /requirements/:id/reject", e)

RouteCreatePosting(e) ==
  \E user \in RequestUsers, body \in CreatePostingInputs(e) :
    Handle(routeCreatePosting(data, user, body), "POST /postings", e)

NextApi ==
  \/ RouteCreateRequirement(ApiEnv)
  \/ RouteApproveRequirement(ApiEnv)
  \/ RouteRejectRequirement(ApiEnv)
  \/ RouteCreatePosting(ApiEnv)

SpecApi == Init /\ [][NextApi]_vars

\* SpecAuth: logins of one registered account, with right and wrong passwords,
\* under a running clock; a login is suspended at `await comparePassword` and
\* other requests run meanwhile.
AuthStore == [createDefaultSchema EXCEPT !.users = <<userRecord(1, "a@x.com")>>]

InitAuth ==
  /\ data = AuthStore
  /\ written = << >>
  /\ last = [op |-> "register", err |-> "none", code |-> 0, mail |-> "none"]
  /\ pending = << >>
  /\ now = 0

LoginRequest ==
  \E email \in Emails, isPasswordValid \in BOOLEAN :
    LET outcome == loginUntilCompare(data, now, email) IN
    /\ UNCHANGED <<data, now>>
    /\ written' = << >>
    /\ IF outcome = "await"
         THEN /\ Len(pending) < AuthMaxInFlight
              /\ pending' = Append(pending,
                     [ route |-> "login",
                       userId |-> data.users[IndexOfEmail(data.users, email)].id,
                       isPasswordValid |-> isPasswordValid ])
              /\ last' = [op |-> "login", err |-> "none", code |-> 0, mail |-> "pending"]
         ELSE /\ pending' = pending
              /\ last' = [op |-> "login", err |-> outcome, code |-> 0, mail |-> "none"]

PasswordCompared ==
  \E k \in 1..Len(pending) :
    LET p == pending[k]
        r == loginAfterCompare(data, now, p.userId, p.isPasswordValid)
    IN /\ \A i \in 1..Len(r.data.users) : r.data.users[i].failedLoginAttempts <= MaxFailed
       /\ data' = r.data
       /\ written' = <<r.data>>
       /\ pending' = Remove(pending, k)
       /\ last' = [op |-> "login", err |-> r.err, code |-> 0, mail |-> "none"]
       /\ UNCHANGED now

UnlockUser ==
  \E userId \in 1..Len(data.users) :
    /\ data' = unlockUser(data, userId)
    /\ written' = <<data'>>
    /\ last' = [op |-> "unlock", err |-> "none", code |-> 200, mail |-> "none"]
    /\ UNCHANGED <<pending, now>>

Tick ==
  /\ now < MaxTime
  /\ now' = now + 1
  /\ UNCHANGED <<data, written, last, pending>>

NextAuth ==
  \/ LoginRequest
  \/ PasswordCompared
  \/ UnlockUser
  \/ Tick

SpecAuth == InitAuth /\ [][NextAuth]_vars

\* SpecStats: applications to two postings and status updates to selected or
\* rejected.
StatsEnv == Env(1, 2, StatsMaxCand, StatsMaxLogs, 0, {}, {"selected", "rejected"}, {""}, {})

NextStats ==
  \/ ApplyForJob(StatsEnv)
  \/ UpdateCandidateStatus(StatsEnv)

SpecStats == InitBuckets /\ [][NextStats]_vars

\* SpecTop: applications to two postings, interviews with and without a
\* rating, and the top-candidates query.
TopEnv == Env(1, 2, TopMaxCand, 0, TopMaxInterviews, {}, {}, {}, {5})

TopLimits == (0 - 1)..(TopMaxCand + 1)

GetTopCandidates(e) ==
  \E limit \in TopLimits :
    LET r == getTopCandidates(data, limit) IN
    /\ data' = r.data
    /\ written' = << >>
    /\ last' = [op |-> "getTopCandidates", err |-> "none", code |-> 0, mail |-> "none"]
    /\ UNCHANGED <<pending, now>>

NextTop ==
  \/ ApplyForJob(TopEnv)
  \/ AddInterview(TopEnv)
  \/ GetTopCandidates(TopEnv)

SpecTop == InitBuckets /\ [][NextTop]_vars

\* SpecAudit: the requisition operations, the candidate routes and the
\* settling of their emails, from the empty store.
AuditEnv ==
  [ Env(1, 1, AuditMaxCand, AuditMaxLogs, AuditMaxInterviews,
        {"budget cut"}, {"rejected"}, {"", "no fit"}, {})
    EXCEPT !.maxMails = AuditMaxMails, !.maxInFlight = AuditMaxInFlight ]

NextAudit ==
  \/ CreateJobRequirement(AuditEnv)
  \/ ApproveJobRequirement(AuditEnv)
  \/ RejectJobRequirement(AuditEnv)
  \/ CreateJobPosting(AuditEnv)
  \/ UpdateJobPostingStatus(AuditEnv)
  \/ RouteApply(AuditEnv)
  \/ RouteCandidateStatus(AuditEnv)
  \/ RouteInterview(AuditEnv)
  \/ TransportAccepts
  \/ TransportFails

SpecAudit == Init /\ [][NextAudit]_vars

\* SpecInterviews: applications and add-interview requests, more than one
\* per candidate, with the settling of their emails.
InterviewsEnv ==
  [ Env(1, 1, InterviewsMaxCand, 0, InterviewsMaxInterviews, {}, {}, {}, {})
    EXCEPT !.maxMails = InterviewsMaxMails, !.maxInFlight = InterviewsMaxInFlight ]

NextInterviews ==
  \/ RouteApply(InterviewsEnv)
  \/ RouteInterview(InterviewsEnv)
  \/ TransportAccepts
  \/ TransportFails

SpecInterviews == InitCandidate /\ [][NextInterviews]_vars

\* SpecTokens: logins, token refreshes and changes of the account status.
LoginResponds ==
  \E k \in 1..Len(pending) :
    LET p == pending[k]
        r == loginAfterCompare(data, now, p.userId, p.isPasswordValid)
        t == IF r.err = "none" THEN loginTokens(r.data, p.userId)
             ELSE [token |-> NoToken, refreshToken |-> NoToken]
    IN /\ \A i \in 1..Len(r.data.users) :
            r.data.users[i].failedLoginAttempts <= TokenMaxFailed
       /\ data' = r.data
       /\ written' = <<r.data>>
       /\ pending' = Remove(pending, k)
       /\ last' = [ op |-> "login", err |-> r.err,
                    code |-> IF r.err = "none" THEN 200 ELSE 401, mail |-> "none",
                    token |-> t.token, refreshToken |-> t.refreshToken ]
       /\ UNCHANGED now

\* refresh tokens a client can present: issued to a user of the store or to
\* an id the store does not hold, an access token, one that does not verify
RefreshInputs ==
  { jwt(TRUE, "refresh", 1), jwt(TRUE, "refresh", 2), jwt(TRUE, NULL, 1),
    jwt(FALSE, "refresh", 1) }

RefreshToken ==
  \E refreshToken \in RefreshInputs :
    LET r == refreshAccessToken(data, refreshToken) IN
    /\ last' = [ op |-> "refresh", err |-> r.err,
                 code |-> IF r.err = "none" THEN 200 ELSE 401, mail |-> "none",
                 token |-> r.token, refreshToken |-> refreshToken ]
    /\ written' = << >>
    /\ UNCHANGED <<data, pending, now>>

SetUserStatus ==
  \E userId \in 1..2, status \in validUserStatuses \cup {"", "deleted"} :
    LET r == setUserStatus(data, userId, status) IN
    /\ data' = r.data
    /\ written' = IF r.code = 200 THEN <<r.data>> ELSE << >>
    /\ last' = [ op |-> "status", err |-> IF r.code = 200 THEN "none" ELSE "rejected",
                 code |-> r.code, mail |-> "none",
                 token |-> NoToken, refreshToken |-> NoToken ]
    /\ UNCHANGED <<pending, now>>

TokenLoginRequest == Len(pending) < TokenMaxInFlight /\ LoginRequest

NextTokens ==
  \/ TokenLoginRequest
  \/ LoginResponds
  \/ RefreshToken
  \/ SetUserStatus

SpecTokens == InitAuth /\ [][NextTokens]_vars

\* ------------------------------------------------------------------ claims
Last(s) == s[Len(s)]

\* number of candidate records of document d that reference posting pid
CandidatesOf(d, pid) ==
  Cardinality({k \in 1..Len(d.candidates) : d.candidates[k].jobPostingId = pid})

CountsAgree(d) ==
  \A i \in 1..Len(d.jobPostings) :
    d.jobPostings[i].applicantCount = CandidatesOf(d, d.jobPostings[i].id)

\* C1: in every reachable state, and in every document handed to db.write(),
\* each posting's applicantCount equals the number of candidates whose
\* jobPostingId is that posting's id.
C1_ApplicantCountMatchesCandidates ==
  /\ CountsAgree(data)
  /\ \A k \in 1..Len(written) : CountsAgree(written[k])

C1_Witness ==
  /\ last.op = "applyForJob" /\ last.err = "none"
  /\ Len(data.jobPostings) = 2
  /\ data.jobPostings[1].applicantCount = 0
  /\ data.jobPostings[2].applicantCount = 2
  /\ written = <<data>>

C3_PostingOnlyFromApprovedRequirement ==
  \A a \in CreatePostingInputs(RequisitionEnv) :
    LET i == IndexOfId(data.jobRequirements, a.requirementId)
        r == createJobPosting(data, a)
        approved == i # 0 /\ data.jobRequirements[i].status = "approved"
        complete == ~Falsy(a.title) /\ ~Falsy(a.description) /\ ~Falsy(a.location)
    IN /\ ~approved => ~r.ok
       /\ (approved /\ complete) =>
            /\ r.ok
            /\ Len(r.data.jobPostings) = Len(data.jobPostings) + 1
            /\ SubSeq(r.data.jobPostings, 1, Len(data.jobPostings)) = data.jobPostings
            /\ Last(r.data.jobPostings).requirementId = a.requirementId
            /\ Last(r.data.jobPostings).status = "open"
            /\ Last(r.data.jobPostings).applicantCount = 0
       /\ ~r.ok => r.data = data /\ r.written = << >>

C3_Witness ==
  /\ last.op = "createJobPosting" /\ last.err = "validation"
  /\ Len(data.jobPostings) = 1
  /\ data.jobPostings[1].status = "open" /\ data.jobPostings[1].applicantCount = 0
  /\ data.jobPostings[1].requirementId = 2
  /\ data.jobRequirements[1].status = "rejected"
  /\ data.jobRequirements[2].status = "approved"

\* C4: in the apply, candidate-status and add-interview routes the mutation is
\* made and flushed before the send is awaited; when the send settles, accepted
\* or refused, candidates, postings and the status log are left as they were
\* and the caller gets the route's success status.
C4_NotificationNeverBlocks ==
  [][ /\ last'.mail = "pending" =>
           /\ data' # data
           /\ written' # << >> /\ Last(written') = data'
           /\ data'.emailLogs = data.emailLogs
      /\ last'.mail \in {"sent", "failed"} =>
           /\ data'.candidates = data.candidates
           /\ data'.jobPostings = data.jobPostings
           /\ data'.statusChangeLogs = data.statusChangeLogs
           /\ last'.code \in {200, 201}
      /\ \A k \in 1..Len(pending) :
           /\ routeAfterSend(data, pending[k], TRUE).code
                = routeAfterSend(data, pending[k], FALSE).code
           /\ routeAfterSend(data, pending[k], TRUE).data.candidates
                = routeAfterSend(data, pending[k], FALSE).data.candidates
    ]_vars

C4_Witness ==
  /\ last.op = "PUT /candidates/:id/status" /\ last.mail = "failed" /\ last.code = 200
  /\ Len(data.candidates) = 1 /\ data.candidates[1].status = "shortlisted"
  /\ Len(data.emailLogs) = 2
  /\ data.emailLogs[1].status = "sent" /\ data.emailLogs[2].status = "failed"

\* the status a candidate's log rows lead to, from 'applied'; "broken" when a
\* row's oldStatus is not the status reached so far
RECURSIVE ReplayFrom(_, _, _)
ReplayFrom(rows, k, status) ==
  IF k > Len(rows) THEN status
  ELSE IF rows[k].oldStatus # status THEN "broken"
  ELSE ReplayFrom(rows, k + 1, rows[k].newStatus)

LogRowsOf(d, candidateId) ==
  SelectSeq(d.statusChangeLogs, LAMBDA row : row.candidateId = candidateId)

\* C5: for every candidate, replaying its StatusChangeLog rows from 'applied'
\* ends in the candidate's current status.
C5_StatusLogTracksStatus ==
  \A i \in 1..Len(data.candidates) :
    ReplayFrom(LogRowsOf(data, data.candidates[i].id), 1, "applied")
      = data.candidates[i].status

C7_RejectionReasonSetOnce ==
  [][ \A i \in 1..Len(data.candidates) :
        LET c == data.candidates[i]
            n == data'.candidates[i]
        IN /\ c.rejectionReason # NULL => n.rejectionReason = c.rejectionReason
           /\ (c.rejectionReason = NULL /\ n.rejectionReason # NULL) =>
                /\ last'.op = "updateCandidateStatus"
                /\ n.status = "rejected"
                /\ n.rejectionReason = IF Len(n.notes) > Len(c.notes)
                                         THEN Last(n.notes) ELSE NoReasonProvided
           /\ (last'.op = "updateCandidateStatus" /\ last'.err = "none"
                 /\ n.status = "rejected" /\ n # c) => n.rejectionReason # NULL
    ]_vars

C7_Witness ==
  /\ last.op = "updateCandidateStatus" /\ last.err = "none"
  /\ Len(data.candidates) = 1
  /\ data.candidates[1].status = "rejected"
  /\ data.candidates[1].notes = <<"no fit", "other reason">>
  /\ data.candidates[1].rejectionReason = "no fit"
  /\ Len(data.statusChangeLogs) = 2
  /\ data.statusChangeLogs[1].newStatus = "rejected"

\* C8: every requirement has its approver set iff its status is approved, and
\* its rejection reason set iff its status is rejected.
C8_ApproverIffApproved ==
  \A i \in 1..Len(data.jobRequirements) :
    LET r == data.jobRequirements[i] IN
    /\ (r.approvedBy # NULL) <=> (r.status = "approved")
    /\ (r.rejectionReason # NULL) <=> (r.status = "rejected")

\* C9: each posting's requirementId refers to an existing requirement whose
\* status is approved.
C9_PostingRequirementApproved ==
  \A k \in 1..Len(data.jobPostings) :
    LET i == IndexOfId(data.jobRequirements, data.jobPostings[k].requirementId) IN
    i # 0 /\ data.jobRequirements[i].status = "approved"

\* C10: a failed applyForJob (validation, unknown posting, duplicate) changes
\* nothing in the store, candidates id counter included, and flushes nothing.
C10_FailedApplyLeavesStore ==
  [][ (last'.op = "applyForJob" /\ last'.err # "none") =>
        data' = data /\ written' = << >> ]_vars

C10_Witness ==
  /\ last.op = "applyForJob" /\ last.err = "conflict"
  /\ Len(data.candidates) = 1
  /\ data._id["candidates"] = 1
  /\ Len(data.jobPostings) = 1 /\ data.jobPostings[1].applicantCount = 1

ExplicitRatings == {-1, 0, 1, 3, 5, 6}

\* C11: a direct addInterview with an explicitly supplied rating outside 1..5
\* fails, and so does the add-interview route for a request whose rating does
\* not parse to a number in 1..5; every stored rating is 0 or in 1..5.
C11_ExplicitRatingValidated ==
  /\ \A id \in 1..Len(data.candidates), x \in ExplicitRatings :
       LET iv == [validInterviewInput EXCEPT !.ratingGiven = TRUE, !.rating = x]
       IN x \notin 1..5 => ~addInterview(data, id, iv).ok
  /\ \A id \in 1..Len(data.candidates), b \in InterviewBodies :
       LET n == parseInt(b.ratingText)
       IN (b.ratingGiven /\ (n.nan \/ n.value \notin 1..5))
            => routeInterview(data, id, b).code = 400
  /\ \A i \in 1..Len(data.candidates) :
       \A k \in 1..Len(data.candidates[i].interviews) :
         data.candidates[i].interviews[k].rating \in 0..5

\* createJobRequirement behaves on input a, in the current store, as a create
\* that accepts exactly the inputs for which `valid` is true
CreatesExactlyWhen(a, valid) ==
  LET r == createJobRequirement(data, a)
      n == Len(data.jobRequirements)
  IN IF valid
       THEN /\ r.ok
            /\ Len(r.data.jobRequirements) = n + 1
            /\ SubSeq(r.data.jobRequirements, 1, n) = data.jobRequirements
            /\ Last(r.data.jobRequirements).status = "pending"
            /\ Last(r.data.jobRequirements).id = r.id
            /\ Last(r.data.jobRequirements).title = a.title
            /\ Last(r.data.jobRequirements).budget = a.budget
            /\ r.written = <<r.data>>
       ELSE /\ ~r.ok /\ r.err = "validation"
            /\ r.data = data /\ r.written = << >>

\* C12 (as amended): createJobRequirement succeeds exactly when title,
\* department and budget are supplied, budget > 0 and positions >= 1 (a
\* budget of 0 is refused as missing), and then stores and returns a record
\* with status pending; otherwise it fails with a validation error and adds
\* no record.
C12_RequirementCreatedIffValid ==
  \A a \in CreateRequirementInputs :
    CreatesExactlyWhen(a, /\ ~Falsy(a.title) /\ ~Falsy(a.department)
                          /\ a.budgetGiven /\ a.budget > 0
                          /\ (a.positionsGiven => a.positions >= 1))

C12_Witness ==
  /\ last.op = "createJobRequirement" /\ last.err = "validation"
  /\ Len(data.jobRequirements) = 2
  /\ data.jobRequirements[2].status = "pending" /\ data.jobRequirements[2].id = 2
  /\ data.jobRequirements[1].status = "approved"
  /\ ~createJobRequirement(data, [validRequirementInput EXCEPT !.budget = 0]).ok

\* C12 as stated: the same with budget >= 0, so that a supplied budget of 0
\* is accepted.
C12_ZeroBudgetAccepted ==
  \A a \in CreateRequirementInputs :
    CreatesExactlyWhen(a, /\ ~Falsy(a.title) /\ ~Falsy(a.department)
                          /\ a.budgetGiven /\ a.budget >= 0
                          /\ (a.positionsGiven => a.positions >= 1))

\* the step settles a send of type t: its request leaves `pending`
SettlesSend ==
  /\ Len(pending') = Len(pending) - 1
  /\ last'.mail \in {"sent", "failed"}

\* the step appends exactly one EmailLog row, for the settled send
AppendsOneLogRow ==
  /\ Len(data'.emailLogs) = Len(data.emailLogs) + 1
  /\ SubSeq(data'.emailLogs, 1, Len(data.emailLogs)) = data.emailLogs
  /\ LET row == Last(data'.emailLogs) IN
       /\ row.emailType = last'.op
       /\ row.id = data'._id["emailLogs"]
       /\ IF last'.mail = "sent"
            THEN row.status = "sent" /\ row.messageId = "msg" /\ row.error = NULL
            ELSE row.status = "failed" /\ row.error = "SMTP error" /\ row.messageId = NULL
  /\ written' = <<data'>>

\* C13 (as amended): each send attempt for one of the five candidate
\* notifications appends exactly one EmailLog row, status sent with the
\* transport message id when the transport accepts the mail, status failed
\* with the error text when it fails, and a failure is re-raised; a send of
\* the new-posting broadcast appends no row (a failure is still re-raised);
\* no other step touches the email log.
C13_OneLogRowPerCandidateMail ==
  [][ /\ (SettlesSend /\ last'.op \in CandidateEmailTypes) => AppendsOneLogRow
      /\ (SettlesSend /\ last'.op = "jobPostingNotification") => data' = data
      /\ SettlesSend => (last'.err = "transport" <=> last'.mail = "failed")
      /\ ~SettlesSend => data'.emailLogs = data.emailLogs
    ]_vars

C13_Witness ==
  /\ last.op = "jobPostingNotification" /\ last.mail = "failed" /\ last.err = "transport"
  /\ Len(data.emailLogs) = 1
  /\ data.emailLogs[1].status = "failed" /\ data.emailLogs[1].emailType = "selectedNotification"
  /\ data.emailLogs[1].error = "SMTP error" /\ data.emailLogs[1].candidateId = 2
  /\ pending = << >>

\* C13 as stated: every settled send, the new-posting broadcast included,
\* appends exactly one EmailLog row.
C13_OneLogRowPerSend ==
  [][ SettlesSend => AppendsOneLogRow ]_vars

Occurrences(q, v) == Cardinality({k \in 1..Len(q) : q[k] = v})

FailedIds(results) == [k \in 1..Len(results.failed) |-> results.failed[k].candidateId]

\* the success and failed lists of `results` partition candidateIds: item k
\* is in success when its candidate exists, the status has a template and the
\* transport accepted its mail, and in failed otherwise
PartitionsBatch(results, candidateIds, newStatus, outcomes) ==
  LET sent(k) == /\ IndexOfId(data.candidates, candidateIds[k]) # 0
                 /\ newStatus \in {"shortlisted", "selected", "rejected"}
                 /\ outcomes[k]
  IN /\ Len(results.success) + Len(results.failed) = Len(candidateIds)
     /\ \A v \in 1..(BulkMaxCand + 1) :
          /\ Occurrences(results.success, v)
               = Cardinality({k \in 1..Len(candidateIds) : candidateIds[k] = v /\ sent(k)})
          /\ Occurrences(FailedIds(results), v)
               = Cardinality({k \in 1..Len(candidateIds) : candidateIds[k] = v /\ ~sent(k)})

\* C14 (as amended): the success and failed lists returned by
\* sendBulkStatusUpdate partition candidateIds, once per occurrence; a missing
\* candidate or a failed send puts only that item in failed; an unsupported
\* status puts every item in failed, with the unsupported-status reason for
\* every item whose candidate and posting exist.
C14_BulkResultsPartitionBatch ==
  \A ids \in BulkIdLists, status \in BulkStatuses :
    \A outcomes \in [1..Len(ids) -> BOOLEAN] :
      LET results == sendBulkStatusUpdate(data, ids, status, outcomes).results IN
      /\ PartitionsBatch(results, ids, status, outcomes)
      /\ status = "interviewed" =>
           /\ results.success = << >>
           /\ \A k \in 1..Len(results.failed) :
                IndexOfId(data.candidates, results.failed[k].candidateId) # 0
                  => results.failed[k].reason = "Unsupported status: interviewed"

C14_Witness ==
  /\ last.op = "sendBulkStatusUpdate"
  /\ Len(data.candidates) = 2 /\ Len(data.emailLogs) = 2 /\ Len(written) = 2
  /\ data.emailLogs[1].candidateId = 2 /\ data.emailLogs[1].status = "sent"
  /\ data.emailLogs[2].candidateId = 1 /\ data.emailLogs[2].status = "failed"
  /\ \A k \in 1..2 : data.emailLogs[k].emailType = "rejectionNotification"

\* C14 as stated: the lists partition candidateIds, and an unsupported status
\* puts every id of the batch in failed with one and the same reason.
C14_UnsupportedStatusOneReason ==
  \A ids \in BulkIdLists, status \in BulkStatuses :
    \A outcomes \in [1..Len(ids) -> BOOLEAN] :
      LET results == sendBulkStatusUpdate(data, ids, status, outcomes).results IN
      /\ PartitionsBatch(results, ids, status, outcomes)
      /\ status = "interviewed" =>
           /\ results.success = << >>
           /\ \A j, k \in 1..Len(results.failed) :
                results.failed[j].reason = results.failed[k].reason

Range(q) == {q[k] : k \in DOMAIN q}

\* C16: for every posting, getCandidatesByPosting returns exactly the
\* candidates whose jobPostingId is that posting, each in exactly the bucket
\* of its current status, with total the sum of the five bucket sizes; the
\* stats attached by getJobPostingById give the same five counts and total.
C16_BucketsPartitionCandidates ==
  \A p \in 1..Len(data.jobPostings) :
    LET id    == data.jobPostings[p].id
        r     == getCandidatesByPosting(data, id)
        g     == getJobPostingById(data, id)
        mine  == {data.candidates[k] : k \in {j \in 1..Len(data.candidates) :
                                                data.candidates[j].jobPostingId = id}}
        sizes == [s \in validStatuses |-> Len(r.byStatus[s])]
    IN /\ UNION {Range(r.byStatus[s]) : s \in validStatuses} = mine
       /\ \A c \in mine : \A s \in validStatuses :
            Occurrences(r.byStatus[s], c) = IF c.status = s THEN 1 ELSE 0
       /\ r.total = Cardinality(mine)
       /\ r.total = sizes["applied"] + sizes["shortlisted"] + sizes["interviewed"]
                      + sizes["selected"] + sizes["rejected"]
       /\ g.ok /\ g.posting = data.jobPostings[p]
       /\ g.stats = [ total       |-> r.total,
                      applied     |-> sizes["applied"],
                      shortlisted |-> sizes["shortlisted"],
                      interviewed |-> sizes["interviewed"],
                      selected    |-> sizes["selected"],
                      rejected    |-> sizes["rejected"] ]

C16_Witness ==
  /\ last.op = "updateCandidateStatus" /\ last.err = "none"
  /\ Len(data.candidates) = 2
  /\ getCandidatesByPosting(data, 2).total = 1
  /\ getCandidatesByPosting(data, 2).byStatus["selected"] = <<data.candidates[1]>>
  /\ getCandidatesByPosting(data, 1).byStatus["rejected"] = <<data.candidates[2]>>
  /\ getJobPostingById(data, 1).stats.rejected = 1
  /\ getJobPostingById(data, 1).stats.total = 1

\* C17: every response to a failed request carries the status of the error's
\* kind: 404 for a not-found error, 400 for a validation or conflict error,
\* 500 for any other.
C17_ErrorsMappedByKind ==
  (last.code # 0 /\ last.mail = "none" /\ last.err # "none") =>
    last.code = CASE last.err = "notfound" -> 404
                  [] last.err \in {"validation", "conflict"} -> 400
                  [] OTHER -> 500

\* the step concludes a login of the account with this id after its password
\* comparison
ConcludesLoginOf(userId) ==
  \E k \in 1..Len(pending) : pending' = Remove(pending, k) /\ pending[k].userId = userId

\* what the lockout rule requires of a step
LockoutStep ==
  \A i \in 1..Len(data.users) :
    LET u == data.users[i]
        v == data'.users[i]
    IN /\ (u.failedLoginAttempts < MAX_LOGIN_ATTEMPTS
             /\ v.failedLoginAttempts >= MAX_LOGIN_ATTEMPTS)
            => v.lockUntil = <<now + LOCK_TIME>>
       /\ (isUserLockedOut(u, now) /\ last'.op = "login" /\ last'.mail = "none"
             /\ (ConcludesLoginOf(u.id) \/ (pending' = pending /\ now' = now)))
            => last'.err \in {"Account locked", "User not found"}
       /\ isUserLockedOut(v, now') => v.failedLoginAttempts >= MAX_LOGIN_ATTEMPTS

\* C18: the failed attempt that brings failedLoginAttempts to 5 locks the
\* account until 15 minutes later; while an account is locked, every login of
\* it that is answered is rejected as locked, whatever its password; a locked
\* account has 5 or more failed attempts since its last successful login or
\* unlock.
C18_LockedAccountRejectsLogin == [][LockoutStep]_vars

\* ids of the users allowed to create and approve requirements
HrAdminIds == {u.id : u \in {x \in RequestUsers : x.role \in {"hr", "admin"}}}

\* C19: every requirement was created by a request of an HR or Admin user,
\* and every approved requirement was approved by one: no request without an
\* authenticated user, or with another role, creates or approves one.
C19_OnlyHrAdminCreateApprove ==
  \A i \in 1..Len(data.jobRequirements) :
    /\ data.jobRequirements[i].createdBy \in HrAdminIds
    /\ data.jobRequirements[i].approvedBy # NULL
         => data.jobRequirements[i].approvedBy \in HrAdminIds

\* Number(text) * 100 for a decimal string with exactly two decimals
HundredthsOf(text) ==
  LET n == Len(text) IN
  DigitPrefix(SubSeq(text, 1, n - 3), 0) * 100
    + DigitValue(text[n - 1]) * 10 + DigitValue(text[n])

\* C20: conversionRate is 0 when there are no candidates; otherwise it is a
\* decimal with exactly two decimals, the hundredth nearest to
\* selected / total * 100, between 0 and 100; 1 selected out of 2 gives 50.00.
C20_ConversionRateRounded ==
  LET total    == Len(data.candidates)
      selected == Cardinality({k \in 1..total : data.candidates[k].status = "selected"})
      rate     == getRecruitmentStats(data).conversionRate
  IN IF total = 0
       THEN rate = [type |-> "number", text |-> <<"0">>]
       ELSE LET h == HundredthsOf(rate.text) IN
            /\ Len(rate.text) >= 4
            /\ rate.text[Len(rate.text) - 2] = "."
            /\ \A k \in (1..Len(rate.text)) \ {Len(rate.text) - 2} : IsDigit(rate.text[k])
            /\ 0 <= h /\ h <= 10000
            /\ 2 * (h * total - selected * 10000) <= total
            /\ 2 * (selected * 10000 - h * total) <= total
            /\ (selected = 1 /\ total = 2) => rate.text = <<"5", "0", ".", "0", "0">>

C20_Witness ==
  /\ last.op = "updateCandidateStatus" /\ last.err = "none"
  /\ Len(data.candidates) = 3
  /\ data.candidates[1].status = "selected"
  /\ data.candidates[2].status = "rejected"
  /\ data.candidates[3].status = "selected"
  /\ getRecruitmentStats(data).conversionRate.text = <<"6", "6", ".", "6", "7">>
  /\ getRecruitmentStats(data).candidates.selected = 2

\* C21: for every n >= 0, getTopCandidates(n) returns at most n candidates
\* of the store, each once and each with at least one interview, as many as
\* n and the store allow; means do not increase along the result and equal
\* means keep their store order; no omitted candidate with an interview has a
\* greater mean than a returned one; the store is left as it was.
C21_TopCandidatesOrdered ==
  \A n \in 0..(TopMaxCand + 1) :
    LET r     == getTopCandidates(data, n)
        top   == r.candidates
        rated == {k \in 1..Len(data.candidates) : Len(data.candidates[k].interviews) > 0}
        at(k) == IndexOfId(data.candidates, top[k].id)
    IN /\ r.data = data
       /\ Len(top) <= n
       /\ Len(top) = IF Cardinality(rated) < n THEN Cardinality(rated) ELSE n
       /\ \A k \in 1..Len(top) : at(k) \in rated /\ data.candidates[at(k)] = top[k]
       /\ \A j, k \in 1..Len(top) :
            j < k => /\ ~meanGreater(top[k], top[j])
                     /\ ~meanGreater(top[j], top[k]) => at(j) < at(k)
       /\ \A o \in rated : \A k \in 1..Len(top) :
            (\A j \in 1..Len(top) : at(j) # o) => ~meanGreater(data.candidates[o], top[k])

C21_Witness ==
  /\ last.op = "getTopCandidates"
  /\ Len(data.candidates) = 3
  /\ ratingSum(data.candidates[1].interviews) = 5 /\ Len(data.candidates[1].interviews) = 2
  /\ ratingSum(data.candidates[2].interviews) = 10 /\ Len(data.candidates[2].interviews) = 2
  /\ ratingSum(data.candidates[3].interviews) = 5 /\ Len(data.candidates[3].interviews) = 2
  /\ getTopCandidates(data, 2).candidates = <<data.candidates[2], data.candidates[1]>>

\* an apply request for the pair of body is suspended at its await
ApplyInFlight(body) ==
  \E k \in 1..Len(pending) :
    /\ pending[k].route = "POST /apply"
    /\ pending[k].recipientEmail = body.email
    /\ \E i \in 1..Len(data.candidates) :
         /\ data.candidates[i].id = pending[k].candidateId
         /\ data.candidates[i].jobPostingId = body.jobPostingId

\* POST /apply handles body while another apply for the same pair is in flight
ConcurrentApply(body) ==
  /\ ~Falsy(body.candidateName)
  /\ ApplyInFlight(body)
  /\ Handle(routeApply(data, body), "POST /apply", RouteEnv)

\* C22 (amended): the duplicate check, the insertion and the flush of an
\* apply request happen in one uninterrupted step, so an apply request
\* handled while another one for the same (posting, email) pair is still in
\* flight is rejected as a duplicate and changes nothing; no state holds two
\* candidate records with the same (jobPostingId, email).
C22_ConcurrentApplyRejected ==
  /\ [](\A i, j \in 1..Len(data.candidates) :
          (/\ data.candidates[i].jobPostingId = data.candidates[j].jobPostingId
           /\ data.candidates[i].email = data.candidates[j].email) => i = j)
  /\ [][\A body \in ApplyInputs(RouteEnv) :
          ConcurrentApply(body) =>
            /\ last'.err = "conflict" /\ last'.code = 400
            /\ data' = data /\ written' = << >> /\ pending' = pending]_vars

C22_Witness ==
  /\ last.op = "POST /apply" /\ last.err = "conflict"
  /\ Len(pending) = 2
  /\ pending[1].route = "POST /apply" /\ pending[2].route = "POST /apply"
  /\ Len(data.candidates) = 2

\* C22 (as stated): an apply request handled while another one for the same
\* pair is in flight passes the duplicate check and adds a second record.
C22_ConcurrentApplyPassesCheck ==
  [][\A body \in ApplyInputs(RouteEnv) :
       ConcurrentApply(body) =>
         /\ last'.err = "none"
         /\ Len(data'.candidates) = Len(data.candidates) + 1]_vars

\* C23: a successful updateCandidateStatus appends exactly one StatusChangeLog
\* row, holding the candidate id, the status the candidate had and the status
\* requested, also when the two are equal; a failed call appends no row and
\* changes no candidate.
C23_OneLogRowPerStatusUpdate ==
  /\ [](\A c \in StatusInputs(CandidateEnv) :
          LET r    == updateCandidateStatus(data, c.candidateId, c.newStatus, c.notes)
              logs == data.statusChangeLogs
              i    == IndexOfId(data.candidates, c.candidateId)
          IN IF r.ok
               THEN /\ i # 0
                    /\ Len(r.data.statusChangeLogs) = Len(logs) + 1
                    /\ SubSeq(r.data.statusChangeLogs, 1, Len(logs)) = logs
                    /\ Last(r.data.statusChangeLogs).candidateId = c.candidateId
                    /\ Last(r.data.statusChangeLogs).oldStatus = data.candidates[i].status
                    /\ Last(r.data.statusChangeLogs).newStatus = c.newStatus
                    /\ r.data.candidates[i].status = c.newStatus
               ELSE r.data = data)
  /\ [][last'.op = "updateCandidateStatus" =>
          IF last'.err = "none"
            THEN /\ Len(data'.statusChangeLogs) = Len(data.statusChangeLogs) + 1
                 /\ SubSeq(data'.statusChangeLogs, 1, Len(data.statusChangeLogs))
                      = data.statusChangeLogs
                 /\ \E i \in 1..Len(data.candidates) :
                      /\ data.candidates[i].id = Last(data'.statusChangeLogs).candidateId
                      /\ data.candidates[i].status = Last(data'.statusChangeLogs).oldStatus
                      /\ data'.candidates[i].status = Last(data'.statusChangeLogs).newStatus
            ELSE /\ data'.statusChangeLogs = data.statusChangeLogs
                 /\ data'.candidates = data.candidates]_vars

C23_Witness ==
  /\ last.op = "updateCandidateStatus" /\ last.err = "none"
  /\ Len(data.statusChangeLogs) = 2
  /\ data.statusChangeLogs[1].oldStatus = "applied"
  /\ data.statusChangeLogs[1].newStatus = "selected"
  /\ data.statusChangeLogs[2].oldStatus = "selected"
  /\ data.statusChangeLogs[2].newStatus = "selected"
  /\ data.statusChangeLogs[2].candidateId = data.statusChangeLogs[1].candidateId

\* C24: a candidate is created with status applied and its status is always
\* one of the five values; for every candidate, whatever its status, and
\* every new status of the five, updateCandidateStatus succeeds and sets the
\* status to the new value; with a new status outside the five it fails and
\* leaves the store as it was.
C24_NoTransitionGuard ==
  /\ [](\A i \in 1..Len(data.candidates) :
          LET c == data.candidates[i] IN
          /\ c.status \in validStatuses
          /\ \A s \in validStatuses, n \in NoteTexts :
               LET r == updateCandidateStatus(data, c.id, s, n) IN
               /\ r.ok
               /\ r.data.candidates[i].status = s
               /\ Len(r.data.candidates) = Len(data.candidates)
          /\ \A n \in NoteTexts :
               LET r == updateCandidateStatus(data, c.id, "hired", n) IN
               ~r.ok /\ r.data = data /\ r.written = << >>)
  /\ [][(last'.op = "applyForJob" /\ last'.err = "none") =>
          /\ Len(data'.candidates) = Len(data.candidates) + 1
          /\ Last(data'.candidates).status = "applied"]_vars

C24_Witness ==
  /\ last.op = "updateCandidateStatus" /\ last.err = "none"
  /\ Len(data.statusChangeLogs) = 2
  /\ data.statusChangeLogs[1].newStatus = "rejected"
  /\ data.statusChangeLogs[2].oldStatus = "rejected"
  /\ data.statusChangeLogs[2].newStatus = "shortlisted"
  /\ data.statusChangeLogs[2].candidateId = data.statusChangeLogs[1].candidateId
  /\ \E i \in 1..Len(data.candidates) :
       /\ data.candidates[i].id = data.statusChangeLogs[2].candidateId
       /\ data.candidates[i].status = "shortlisted"

IsPrefix(s, t) == Len(s) <= Len(t) /\ SubSeq(t, 1, Len(s)) = s

\* every record of s is still at its place in t, under the same id
KeepsRecords(s, t) == Len(s) <= Len(t) /\ \A i \in 1..Len(s) : t[i].id = s[i].id

InterviewSendsOf(candidateId) ==
  Cardinality({k \in 1..Len(data.emailLogs) :
                 /\ data.emailLogs[k].emailType = "interviewScheduled"
                 /\ data.emailLogs[k].candidateId = candidateId})
  + Cardinality({k \in 1..Len(pending) :
                   /\ pending[k].emailType = "interviewScheduled"
                   /\ pending[k].candidateId = candidateId})

\* C26: over any sequence of add-interview requests for a candidate at most
\* one interview-scheduled send is attempted.
C26_InterviewMailSentOnce ==
  \A i \in 1..Len(data.candidates) : InterviewSendsOf(data.candidates[i].id) <= 1

\* C27: in every reachable state a candidate whose status is rejected has a
\* rejectionReason that is not null (nor empty).
C27_RejectedHasReason ==
  \A i \in 1..Len(data.candidates) :
    data.candidates[i].status = "rejected" =>
      /\ data.candidates[i].rejectionReason # NULL
      /\ ~Falsy(data.candidates[i].rejectionReason)

C27_Witness ==
  /\ last.op = "updateCandidateStatus" /\ last.err = "none"
  /\ Len(data.candidates) = 2
  /\ data.candidates[1].status = "rejected"
  /\ data.candidates[1].notes = << >>
  /\ data.candidates[1].rejectionReason = NoReasonProvided
  /\ data.candidates[2].status = "rejected"
  /\ data.candidates[2].rejectionReason = "other reason"

\* C28: an application to an existing posting succeeds whatever the
\* posting's status: it adds a candidate with status applied and adds one to
\* that posting's applicantCount, and the outcome is the one the same
\* application has when the posting is open.
C28_ApplyIgnoresPostingStatus ==
  \A p \in 1..Len(data.jobPostings) : \A a \in ApplyInputs(FullEnv) :
    (/\ a.jobPostingId = data.jobPostings[p].id
     /\ ~Falsy(a.candidateName) /\ ~Falsy(a.email)
     /\ ~existingApp(data, a)) =>
      LET r    == applyForJob(data, a)
          open == applyForJob([data EXCEPT !.jobPostings[p].status = "open"], a)
      IN /\ r.ok /\ open.ok
         /\ Len(r.data.candidates) = Len(data.candidates) + 1
         /\ Last(r.data.candidates).status = "applied"
         /\ Last(r.data.candidates).jobPostingId = a.jobPostingId
         /\ r.data.jobPostings[p].applicantCount = data.jobPostings[p].applicantCount + 1
         /\ r.data.jobPostings[p].status = data.jobPostings[p].status
         /\ r.data = [open.data EXCEPT !.jobPostings[p].status = data.jobPostings[p].status]

C28_Witness ==
  /\ last.op = "applyForJob" /\ last.err = "none"
  /\ Len(data.jobPostings) = 2
  /\ data.jobPostings[1].status = "closed" /\ data.jobPostings[1].applicantCount = 1
  /\ data.jobPostings[2].status = "filled" /\ data.jobPostings[2].applicantCount = 1
  /\ Len(data.candidates) = 2
  /\ Len(written) = 1 /\ written[1] = data

\* what the claim requires of a step, for the user at index i
LockExpiryStep(i) ==
  LET u == data.users[i]
      v == data'.users[i]
      expired == u.lockUntil # << >> /\ ~isUserLockedOut(u, now)
      loginSucceeds == last'.op = "login" /\ last'.err = "none" /\ ConcludesLoginOf(u.id)
      loginFails == last'.op = "login" /\ last'.err = "Invalid password"
                      /\ ConcludesLoginOf(u.id)
  IN \* the passing of time changes no user
     /\ now' # now => v = u
     \* an expired lock leaves the counter at 5 or more
     /\ u.lockUntil # << >> => u.failedLoginAttempts >= MAX_LOGIN_ATTEMPTS
     \* one failed login after the expiry locks again
     /\ (expired /\ loginFails) =>
          /\ v.failedLoginAttempts = u.failedLoginAttempts + 1
          /\ v.lockUntil = <<now + LOCK_TIME>>
          /\ isUserLockedOut(v, now')
     \* only a successful login or an unlock lowers the counter or clears the lock
     /\ (v.failedLoginAttempts < u.failedLoginAttempts
           \/ (u.lockUntil # << >> /\ v.lockUntil = << >>)) =>
          /\ loginSucceeds \/ last'.op = "unlock"
          /\ v.failedLoginAttempts = 0 /\ v.lockUntil = << >>
     /\ (loginSucceeds \/ last'.op = "unlock") =>
          \E j \in 1..Len(data.users) :
            data'.users[j].failedLoginAttempts = 0 /\ data'.users[j].lockUntil = << >>
     \* a login made while the account is locked is rejected and changes nothing
     /\ isUserLockedOut(u, now) =>
          /\ loginUntilCompare(data, now, u.email) = "Account locked"
          /\ (last'.op = "login" /\ last'.err = "Account locked") =>
               data' = data /\ pending' = pending

\* C29: the expiry of a lock does not reset failedLoginAttempts, so that one
\* more failed login after lockUntil has passed locks the account again;
\* only a successful login or an admin unlock sets failedLoginAttempts to 0
\* and clears lockUntil; a login made while the account is locked leaves
\* failedLoginAttempts as it is.
C29_LockExpiryKeepsCounter ==
  [][\A i \in 1..Len(data.users) : LockExpiryStep(i)]_vars

C29_Witness ==
  /\ last.op = "login" /\ last.err = "Invalid password"
  /\ data.users[1].failedLoginAttempts = MAX_LOGIN_ATTEMPTS + 1
  /\ data.users[1].lockUntil = <<now + LOCK_TIME>>
  /\ now >= LOCK_TIME
  /\ pending = << >>

\* a login with the right password is answered in this step
AnswersValidLoginOf(userId) ==
  \E k \in 1..Len(pending) :
    /\ pending' = Remove(pending, k)
    /\ pending[k].userId = userId /\ pending[k].isPasswordValid

\* C30: a login with the correct password is answered with an access and a
\* refresh token of the user whatever the account status is, while
\* refreshAccessToken issues an access token exactly for a verified refresh
\* token of a user that is in the store with status active: a user set to
\* inactive or suspended gets a token by logging in, not by refreshing.
C30_LoginIgnoresStatusRefreshDoesNot ==
  /\ [](\A t \in RefreshInputs :
          LET r == refreshAccessToken(data, t) IN
          /\ r.err = "none" <=>
               /\ t.verifies /\ t.type = "refresh"
               /\ \E i \in 1..Len(data.users) :
                    data.users[i].id = t.id /\ data.users[i].status = "active"
          /\ r.err = "none" => r.token = jwt(TRUE, NULL, t.id)
          /\ r.err # "none" => r.token = NoToken)
  /\ [][\A i \in 1..Len(data.users) :
          (last'.op = "login" /\ AnswersValidLoginOf(data.users[i].id)) =>
            /\ last'.err = "none"
            /\ last'.token = jwt(TRUE, NULL, data.users[i].id)
            /\ last'.refreshToken = jwt(TRUE, "refresh", data.users[i].id)
            /\ data'.users[i].status = data.users[i].status]_vars

C30_Witness ==
  /\ last.op = "login" /\ last.err = "none" /\ last.mail = "none"
  /\ data.users[1].status = "suspended"
  /\ last.token = jwt(TRUE, NULL, 1)
  /\ refreshAccessToken(data, last.refreshToken).err = "User not found or inactive"
====
